---- MODULE Spec2Model ----
(***************************************************************************)
(* Vidya tutoring bot: the session orchestrator of agent.py together with  *)
(* the profile store (db.py), the onboarding rules (onboarding.py), the    *)
(* prompt composer (prompt_builder.py), the directive extractor and        *)
(* channel (visual_extractor.py) and the session tracker                   *)
(* (session_tracker.py).                                                   *)
(*                                                                         *)
(* A text is a sequence of tokens.  A token is one character ("[", "]",    *)
(* " ") or an unbroken run of characters that holds no bracket and no      *)
(* whitespace ("SHOW:", "letter_A", a sentence of a prompt).               *)
(***************************************************************************)
EXTENDS Integers, Sequences, FiniteSets, TLC

\* ------------------------------------------------------------------------
\* Bounds of the model
\* ------------------------------------------------------------------------
\* recognized utterances of the participant in one run of bot()
MaxTurns == 7
\* on_client_connected events in one run of bot()
MaxConnects == 1
\* calls of complete_onboarding in one run of bot()
MaxCompletions == 1
\* readings of datetime.now() by the operations of the profile store
MaxClock == 2
\* the stars one profile may collect
MaxStars == 1
\* calls of mark_topic_complete between their read and their write
MaxInflight == 1
\* the pieces a text given to extract_visuals is made of
MaxPieces == 4
\* calls of send_show and send_hide on visual_channel
MaxSends == 2
\* SessionTracker objects built while vidya.db lasts
MaxTrackers == 2
\* record_visual calls on the tracker given to build_summary
MaxVisuals == 6
\* record_exchange calls on the tracker given to build_summary
MaxExchanges == 2
MaxSessionCount == 3
MaxLevel == 1
MaxMarks == 3

\* the values uuid4() may give to a session id
SessionIds == {"s1", "s2"}
\* the value uuid4() gives to the session id of this run of bot()
RunSessionId == "s1"
\* display endpoints (websockets) of the browser
Endpoints == {"ws1", "ws2"}
\* the websocket the browser of this run of bot() opens for its display
RunEndpoint == "ws1"

\* ------------------------------------------------------------------------
\* Texts
\* ------------------------------------------------------------------------
Whitespace == {" ", "\t", "\n"}

RECURSIVE Join(_, _)
\* sep.join(items)
Join(items, sep) ==
    IF items = <<>> THEN <<>>
    ELSE IF Len(items) = 1 THEN <<items[1]>>
    ELSE <<items[1], sep>> \o Join(Tail(items), sep)

\* sub in text
Contains(text, sub) ==
    \E i \in 0..(Len(text) - Len(sub)) :
        \A j \in 1..Len(sub) : text[i + j] = sub[j]

RECURSIVE LStrip(_)
LStrip(text) ==
    IF text # <<>> /\ Head(text) \in Whitespace THEN LStrip(Tail(text)) ELSE text

RECURSIVE RStrip(_)
RStrip(text) ==
    IF text # <<>> /\ text[Len(text)] \in Whitespace
    THEN RStrip(SubSeq(text, 1, Len(text) - 1)) ELSE text

\* str.strip()
Strip(text) == RStrip(LStrip(text))

\* ------------------------------------------------------------------------
\* visual_extractor.py : SHOW_PATTERN
\* ------------------------------------------------------------------------
\* the position of the "]" that ends a match of SHOW_PATTERN starting at i,
\* 0 when the pattern does not match at i:  \[SHOW:([^\]]+)\]
MatchEnd(text, i) ==
    IF /\ i + 3 <= Len(text)
       /\ text[i] = "["
       /\ text[i + 1] = "SHOW:"
       /\ text[i + 2] # "]"
       /\ \E j \in (i + 3)..Len(text) : text[j] = "]"
    THEN CHOOSE j \in (i + 3)..Len(text) :
            /\ text[j] = "]"
            /\ \A k \in (i + 3)..(j - 1) : text[k] # "]"
    ELSE 0

\* SHOW_PATTERN.search(text) is not None
HasMarker(text) == \E i \in 1..Len(text) : MatchEnd(text, i) # 0

RECURSIVE FindAllFrom(_, _)
\* the start positions of the matches SHOW_PATTERN.findall and .sub visit
\* from position i on: leftmost first, the next search after the match
FindAllFrom(text, i) ==
    IF i > Len(text) THEN <<>>
    ELSE IF MatchEnd(text, i) # 0
         THEN <<i>> \o FindAllFrom(text, MatchEnd(text, i) + 1)
         ELSE FindAllFrom(text, i + 1)

\* the key of the match at position p: group 1 of SHOW_PATTERN
GroupOne(text, p) == SubSeq(text, p + 2, MatchEnd(text, p) - 1)

RECURSIVE Distinct(_)
\* list without the later copies of its items
Distinct(list) ==
    IF list = <<>> THEN <<>>
    ELSE LET front == Distinct(SubSeq(list, 1, Len(list) - 1))
             last  == list[Len(list)]
         IN  IF \E i \in 1..Len(front) : front[i] = last THEN front ELSE Append(front, last)

\* a findall that returns every key once
findall_distinct(text) ==
    LET at == FindAllFrom(text, 1)
    IN  Distinct([n \in 1..Len(at) |-> GroupOne(text, at[n])])

\* SHOW_PATTERN.findall(text): a key is the text between "SHOW:" and "]"
findall(text) ==
    LET at == FindAllFrom(text, 1)
    IN  [n \in 1..Len(at) |-> GroupOne(text, at[n])]

RECURSIVE SubEmptyFrom(_, _)
\* SHOW_PATTERN.sub('', text) from position i on
SubEmptyFrom(text, i) ==
    IF i > Len(text) THEN <<>>
    ELSE IF MatchEnd(text, i) # 0
         THEN SubEmptyFrom(text, MatchEnd(text, i) + 1)
         ELSE <<text[i]>> \o SubEmptyFrom(text, i + 1)

RECURSIVE CollapseSpaces(_)
\* re.sub(r'  +', ' ', text): every run of two or more spaces becomes one
CollapseSpaces(text) ==
    IF Len(text) < 2 THEN text
    ELSE IF text[1] = " " /\ text[2] = " "
         THEN CollapseSpaces(Tail(text))
         ELSE <<text[1]>> \o CollapseSpaces(Tail(text))

extract_visuals(text) ==
    [ clean_text |-> CollapseSpaces(Strip(SubEmptyFrom(text, 1))),
      asset_keys |-> findall(text) ]

\* ------------------------------------------------------------------------
\* onboarding.py
\* ------------------------------------------------------------------------
ONBOARDING_QUESTIONS == 7

ONBOARDING_PROMPT == <<"ONBOARDING_PROMPT: ask the 7 questions below, one at a time, in this exact order">>

\* the 7 questions of ONBOARDING_PROMPT, each one token
QUESTIONS ==
    << "Q1: What is your name?",
       "Q2: Which language do you speak at home?",
       "Q3: Can you count to ten for me?",
       "Q4: Do you know any letters of the alphabet?",
       "Q5: Have you ever been to school before?",
       "Q6: What would you most like to learn?",
       "Q7: Why do you want to learn?" >>

\* dict.get(key, default)
Get(d, key, default) == IF key \in DOMAIN d THEN d[key] ELSE default

\* str.lower() on the vocabulary of the answers
Lower(s) ==
    CASE s = "No" -> "no"
      [] s = "NEVER" -> "never"
      [] s = "Nahi" -> "nahi"
      [] s = "Yes" -> "yes"
      [] s = "Farming" -> "farming"
      [] OTHER -> s

\* the keywords of assign_learning_path that occur in the (lower-case) string s
KeywordsIn(s) ==
    CASE s = "farming" -> {"farm"}
      [] s = "work" -> {"work"}
      [] s = "for my children and family" -> {"child", "family"}
      [] s = "parenting" -> {"parent"}
      [] s = "get a job" -> {"job"}
      [] s = "office work" -> {"work"}
      [] s = "business" -> {"business"}
      [] s = "numbers and maths" -> {"math", "number"}
      [] s = "counting" -> {"count"}
      [] s = "science" -> {"science"}
      [] s = "farm science" -> {"farm", "science"}
      [] OTHER -> {}

\* kw in s
In(kw, s) == kw \in KeywordsIn(s)

\* an assign_learning_path that tests the goal before the motivation
assign_learning_path_goal_first(profile) ==
    LET goal == Lower(profile.learning_goal)
        motivation == Lower(profile.motivation)
    IN  IF In("farm", goal) \/ In("farm", motivation) \/ In("work", motivation)
        THEN <<"literacy", "numeracy", "life_skills", "science", "vocational">>
        ELSE IF In("science", goal)
        THEN <<"literacy", "numeracy", "science", "geography", "life_skills">>
        ELSE IF In("child", motivation) \/ In("family", motivation) \/ In("parent", motivation)
        THEN <<"literacy", "numeracy", "health", "life_skills", "science">>
        ELSE IF In("job", goal) \/ In("work", goal) \/ In("business", motivation)
        THEN <<"literacy", "numeracy", "life_skills", "civics", "vocational">>
        ELSE IF In("math", goal) \/ In("number", goal) \/ In("count", goal)
        THEN <<"numeracy", "literacy", "life_skills", "science">>
        ELSE <<"literacy", "numeracy", "life_skills">>

assign_learning_path(profile) ==
    LET goal == Lower(profile.learning_goal)
        motivation == Lower(profile.motivation)
        base_path == <<"literacy", "numeracy", "life_skills">>
    IN  IF In("farm", goal) \/ In("farm", motivation) \/ In("work", motivation)
        THEN <<"literacy", "numeracy", "life_skills", "science", "vocational">>
        ELSE IF In("child", motivation) \/ In("family", motivation) \/ In("parent", motivation)
        THEN <<"literacy", "numeracy", "health", "life_skills", "science">>
        ELSE IF In("job", goal) \/ In("work", goal) \/ In("business", motivation)
        THEN <<"literacy", "numeracy", "life_skills", "civics", "vocational">>
        ELSE IF In("math", goal) \/ In("number", goal) \/ In("count", goal)
        THEN <<"numeracy", "literacy", "life_skills", "science">>
        ELSE IF In("science", goal)
        THEN <<"literacy", "numeracy", "science", "geography", "life_skills">>
        ELSE base_path

\* an assign_literacy_level that looks at the letters before the school
assign_literacy_level_letters_first(profile) ==
    LET knows_letters == profile.knows_letters
        school == Lower(profile.school_attended)
    IN  IF ~knows_letters THEN 0
        ELSE IF school \in {"no", "never"} THEN 1
        ELSE 2

assign_literacy_level(profile) ==
    LET knows_letters == profile.knows_letters
        school == Lower(profile.school_attended)
    IN  IF ~knows_letters /\ school \in {"no", "never", "nahi", "illa", "ledu"} THEN 0
        ELSE IF knows_letters /\ school \in {"no", "never"} THEN 1
        ELSE IF school \notin {"no", "never"} THEN 2
        ELSE 0

assign_numeracy_level(profile) ==
    IF profile.can_count_to_10 THEN 1 ELSE 0

build_profile_from_onboarding(session_id, answers) ==
    LET p0 == [ session_id         |-> session_id,
                name               |-> Get(answers, "name", "Friend"),
                preferred_language |-> Get(answers, "language", "unknown"),
                school_attended    |-> Get(answers, "school_attended", "unknown"),
                learning_goal      |-> Get(answers, "learning_goal", "literacy"),
                motivation         |-> Get(answers, "motivation", "self"),
                knows_letters      |-> Get(answers, "knows_letters", FALSE),
                can_count_to_10    |-> Get(answers, "can_count_to_10", FALSE) ]
        lit  == assign_literacy_level(p0)
        num  == assign_numeracy_level(p0)
        path == assign_learning_path(p0)
    IN  [ session_id         |-> p0.session_id,
          name               |-> p0.name,
          preferred_language |-> p0.preferred_language,
          school_attended    |-> p0.school_attended,
          learning_goal      |-> p0.learning_goal,
          motivation         |-> p0.motivation,
          knows_letters      |-> p0.knows_letters,
          can_count_to_10    |-> p0.can_count_to_10,
          literacy_level     |-> lit,
          numeracy_level     |-> num,
          learning_path      |-> path,
          current_subject    |-> path[1],
          current_level      |-> lit ]

\* ------------------------------------------------------------------------
\* prompt_builder.py
\* ------------------------------------------------------------------------
VIDYA_BASE_PERSONA == <<"You are Vidya. You are ONLY a teacher.", "CORE RULES">>

get_onboarding_prompt == ONBOARDING_PROMPT

\* the (subject, level) pairs of the built-in curricula table
CurriculaLevels(subject) ==
    CASE subject = "literacy" -> 0..4
      [] subject = "numeracy" -> 0..1
      [] subject = "life_skills" -> {0}
      [] OTHER -> {}

CurriculumText(subject, level) ==
    <<"CURRICULUM", subject, "Level", ToString(level)>>

_get_curriculum_context(subject, level) ==
    LET subj == IF CurriculaLevels(subject) # {} THEN subject ELSE "literacy"
        level_data == IF level \in CurriculaLevels(subj) THEN CurriculumText(subj, level)
                      ELSE IF 0 \in CurriculaLevels(subj) THEN CurriculumText(subj, 0)
                      ELSE <<>>
    IN  <<"WHAT TO TEACH TODAY:", "\n">> \o level_data

LAST_SESSION_HEADER == "LAST SESSION SUMMARY:"

REVIEW_INSTRUCTION == "Start today by briefly reviewing what was taught last time before introducing anything new."

FIRST_SESSION_INSTRUCTION == "This is their FIRST session after onboarding. Start by welcoming them warmly by name."

\* no summary: None and the empty string are both false in "if last_session_summary"
NoSummary == <<>>

\* a build_prompt that welcomes whenever there is no summary
build_prompt_always_welcoming(user, last_session_summary) ==
    LET name     == user.name
        language == user.preferred_language
        subject  == user.current_subject
        level    == user.current_level
        stars    == user.total_stars
        sessions == user.session_count
        goal     == user.learning_goal
        path     == user.learning_path
        topics   == user.topics_completed
        student_context ==
            <<"\n", "STUDENT PROFILE:", "- Name:", name,
              "- Preferred language:", language,
              "- Current subject:", subject,
              "- Current level:", ToString(level),
              "- Learning goal:", goal,
              "- Learning path:">> \o Join(path, " -> ") \o
            <<"- Sessions completed:", ToString(sessions),
              "- Stars earned:", ToString(stars),
              "- Topics completed so far:">> \o
            (IF topics # <<>> THEN Join(topics, ", ")
             ELSE <<"None yet - this is their journey beginning">>) \o <<"\n">>
        curriculum == _get_curriculum_context(subject, level)
        last_session ==
            IF last_session_summary # <<>>
            THEN <<"\n", LAST_SESSION_HEADER, "\n">> \o last_session_summary
                 \o <<"\n", "\n", REVIEW_INSTRUCTION, "\n">>
            ELSE <<"\n", FIRST_SESSION_INSTRUCTION, "\n">>
        prompt == <<"\n">> \o VIDYA_BASE_PERSONA \o <<"\n", "\n">> \o student_context
                  \o <<"\n", "\n">> \o curriculum \o <<"\n", "\n">> \o last_session
                  \o <<"\n", "\n", "TODAY'S SESSION GOAL:", "Remember:", name,
                       "is counting on you.", "\n">>
    IN  Strip(prompt)

build_prompt(user, last_session_summary) ==
    LET name     == user.name
        language == user.preferred_language
        subject  == user.current_subject
        level    == user.current_level
        stars    == user.total_stars
        sessions == user.session_count
        goal     == user.learning_goal
        path     == user.learning_path
        topics   == user.topics_completed
        student_context ==
            <<"\n", "STUDENT PROFILE:", "- Name:", name,
              "- Preferred language:", language,
              "- Current subject:", subject,
              "- Current level:", ToString(level),
              "- Learning goal:", goal,
              "- Learning path:">> \o Join(path, " -> ") \o
            <<"- Sessions completed:", ToString(sessions),
              "- Stars earned:", ToString(stars),
              "- Topics completed so far:">> \o
            (IF topics # <<>> THEN Join(topics, ", ")
             ELSE <<"None yet - this is their journey beginning">>) \o <<"\n">>
        curriculum == _get_curriculum_context(subject, level)
        last_session ==
            IF last_session_summary # <<>>
            THEN <<"\n", LAST_SESSION_HEADER, "\n">> \o last_session_summary
                 \o <<"\n", "\n", REVIEW_INSTRUCTION, "\n">>
            ELSE IF sessions = 1
            THEN <<"\n", FIRST_SESSION_INSTRUCTION, "\n">>
            ELSE <<>>
        prompt == <<"\n">> \o VIDYA_BASE_PERSONA \o <<"\n", "\n">> \o student_context
                  \o <<"\n", "\n">> \o curriculum \o <<"\n", "\n">> \o last_session
                  \o <<"\n", "\n", "TODAY'S SESSION GOAL:", "Remember:", name,
                       "is counting on you.", "\n">>
    IN  Strip(prompt)

\* ------------------------------------------------------------------------
\* db.py : the users table, one row per session_id
\* ------------------------------------------------------------------------
\* json.dumps of a list of strings: the text of the column as its pieces, the
\* brackets, every item between quotes and ", " between two items
RECURSIVE json_dumps_items(_)
json_dumps_items(list) ==
    IF list = <<>> THEN <<>>
    ELSE <<"\"", Head(list), "\"">>
         \o (IF Len(list) = 1 THEN <<>> ELSE <<", ">> \o json_dumps_items(Tail(list)))

json_dumps(list) == <<"[">> \o json_dumps_items(list) \o <<"]">>

\* json.loads of the stored column: the items between the quotes, in the
\* order of the text, whatever the separator between them
json_loads(column) == [k \in 1..((Len(column) - 1) \div 4) |-> column[4 * k - 1]]

\* get_user: the row as a dict with its JSON columns parsed; <<>> is None
get_user(tbl, session_id) ==
    IF session_id \notin DOMAIN tbl THEN <<>>
    ELSE LET row == tbl[session_id]
         IN  << [row EXCEPT !.learning_path    = json_loads(@),
                            !.topics_completed = json_loads(@),
                            !.quiz_scores      = json_loads(@)] >>

\* save_user that stores the onboarding flag the profile carries
save_user_row_flag_from_profile(session_id, profile, now) ==
    [ session_id         |-> session_id,
      name               |-> Get(profile, "name", "Friend"),
      preferred_language |-> Get(profile, "preferred_language", "unknown"),
      literacy_level     |-> Get(profile, "literacy_level", 0),
      numeracy_level     |-> Get(profile, "numeracy_level", 0),
      school_attended    |-> Get(profile, "school_attended", "unknown"),
      learning_goal      |-> Get(profile, "learning_goal", "literacy"),
      learning_path      |-> json_dumps(Get(profile, "learning_path", <<"literacy">>)),
      current_subject    |-> Get(profile, "current_subject", "literacy"),
      current_level      |-> Get(profile, "current_level", 0),
      topics_completed   |-> json_dumps(<<>>),
      quiz_scores        |-> json_dumps(<<>>),
      total_stars        |-> 0,
      session_count      |-> 1,
      last_seen          |-> now,
      created_at         |-> now,
      onboarding_done    |-> Get(profile, "onboarding_done", 0) ]

\* the row save_user's INSERT OR REPLACE writes at time now
save_user_row(session_id, profile, now) ==
    [ session_id         |-> session_id,
      name               |-> Get(profile, "name", "Friend"),
      preferred_language |-> Get(profile, "preferred_language", "unknown"),
      literacy_level     |-> Get(profile, "literacy_level", 0),
      numeracy_level     |-> Get(profile, "numeracy_level", 0),
      school_attended    |-> Get(profile, "school_attended", "unknown"),
      learning_goal      |-> Get(profile, "learning_goal", "literacy"),
      learning_path      |-> json_dumps(Get(profile, "learning_path", <<"literacy">>)),
      current_subject    |-> Get(profile, "current_subject", "literacy"),
      current_level      |-> Get(profile, "current_level", 0),
      topics_completed   |-> json_dumps(<<>>),
      quiz_scores        |-> json_dumps(<<>>),
      total_stars        |-> 0,
      session_count      |-> 1,
      last_seen          |-> now,
      created_at         |-> now,
      onboarding_done    |-> 1 ]

\* a save_user whose statement is INSERT OR IGNORE: the row of a known
\* session_id is kept
save_user_insert_or_ignore(tbl, session_id, profile, now) ==
    [s \in DOMAIN tbl \cup {session_id} |->
        IF s \in DOMAIN tbl THEN tbl[s] ELSE save_user_row(session_id, profile, now)]

save_user(tbl, session_id, profile, now) ==
    [s \in DOMAIN tbl \cup {session_id} |->
        IF s = session_id THEN save_user_row(session_id, profile, now) ELSE tbl[s]]

\* an update_session_count whose UPDATE has no WHERE clause
update_session_count_every_row(tbl, session_id, now) ==
    [s \in DOMAIN tbl |-> [tbl[s] EXCEPT !.session_count = @ + 1, !.last_seen = now]]

update_session_count(tbl, session_id, now) ==
    [s \in DOMAIN tbl |->
        IF s = session_id
        THEN [tbl[s] EXCEPT !.session_count = @ + 1, !.last_seen = now]
        ELSE tbl[s]]

add_stars(tbl, session_id, count) ==
    [s \in DOMAIN tbl |->
        IF s = session_id THEN [tbl[s] EXCEPT !.total_stars = @ + count] ELSE tbl[s]]

\* mark_topic_complete, the list it writes: topics is user["topics_completed"]
\* as get_user returned it
mark_topic_list(topics, topic) ==
    IF \E i \in 1..Len(topics) : topics[i] = topic THEN topics ELSE Append(topics, topic)

\* mark_topic_complete, its UPDATE
mark_topic_update(tbl, session_id, topics) ==
    [s \in DOMAIN tbl |->
        IF s = session_id THEN [tbl[s] EXCEPT !.topics_completed = json_dumps(topics)]
        ELSE tbl[s]]

update_level(tbl, session_id, subject, level) ==
    [s \in DOMAIN tbl |->
        IF s = session_id
        THEN [tbl[s] EXCEPT !.current_subject = subject, !.current_level = level]
        ELSE tbl[s]]

\* ------------------------------------------------------------------------
\* session_tracker.py : the sessions table, rows in insertion order
\* ------------------------------------------------------------------------
\* the summaries load_last_summary may return for session_id: those of the
\* rows of session_id with the greatest started_at (ORDER BY started_at DESC
\* LIMIT 1); the empty set stands for None
load_last_summary(tbl, session_id) ==
    LET mine == {i \in 1..Len(tbl) : tbl[i].session_id = session_id}
    IN  {tbl[i].summary : i \in {k \in mine : \A m \in mine : tbl[m].started_at <= tbl[k].started_at}}

\* asset_key.split('_') on the asset keys of the model
KeyParts(asset_key) ==
    CASE asset_key = "letter_A" -> <<"letter", "A">>
      [] asset_key = "letter_E" -> <<"letter", "E">>
      [] asset_key = "number_1" -> <<"number", "1">>
      [] asset_key = "vowel_E" -> <<"vowel", "E">>
      [] asset_key = "counting_1_5" -> <<"counting", "1", "5">>
      [] OTHER -> <<asset_key>>

\* a concept label is the sequence of the strings it is concatenated from
_asset_to_concept(asset_key) ==
    LET parts == KeyParts(asset_key)
    IN  IF Len(parts) >= 2 /\ parts[1] = "letter" THEN <<"Letter ", parts[2]>>
        ELSE IF Len(parts) >= 2 /\ parts[1] = "number" THEN <<"Number ", parts[2]>>
        ELSE IF Len(parts) >= 2 /\ parts[1] = "vowel" THEN <<"Vowel ", parts[2]>>
        ELSE <<asset_key>>

\* SessionTracker.__init__ at time now
SessionTracker(session_id, now) ==
    [ session_id        |-> session_id,
      started_at        |-> now,
      visuals_shown     |-> <<>>,
      concepts_taught   |-> <<>>,
      exchanges         |-> <<>>,
      student_successes |-> 0,
      student_struggles |-> <<>> ]

InList(x, list) == \E i \in 1..Len(list) : list[i] = x

\* a record_visual that keeps only the key shown last
record_visual_latest_only(t, asset_key) ==
    [t EXCEPT !.visuals_shown = <<asset_key>>]

record_visual(t, asset_key) ==
    LET concept == _asset_to_concept(asset_key)
    IN  [t EXCEPT
           !.visuals_shown   = IF InList(asset_key, @) THEN @ ELSE Append(@, asset_key),
           !.concepts_taught = IF asset_key # "" /\ ~InList(concept, @)
                               THEN Append(@, concept) ELSE @]

RECURSIVE JoinLabels(_, _)
\* sep.join(labels), every label spelled out
JoinLabels(labels, sep) ==
    IF labels = <<>> THEN <<>>
    ELSE IF Len(labels) = 1 THEN labels[1]
    ELSE labels[1] \o <<sep>> \o JoinLabels(Tail(labels), sep)

NOTHING_COVERED ==
    <<"No specific concepts were covered - student was still in onboarding or warming up.">>

\* the keys of CONCEPT_PATTERNS, in the order of the dict
CONCEPT_KEYS ==
    << "letter_A", "letter_E", "letter_I", "letter_O", "letter_U",
       "counting_1_5", "counting_6_10", "counting_11_20" >>

\* the keys of CONCEPT_PATTERNS with a pattern p such that p.lower() is in
\* token.lower(), on the vocabulary of the tutor
ConceptKeysIn(token) ==
    CASE token = "Great! This is the letter A." -> {"letter_A"}
      [] token = "letter_A" -> {"letter_A"}
      [] token = "letter_E" -> {"letter_E"}
      [] token = "Let us count: one two three." -> {"counting_1_5"}
      [] token = "Letter E comes after the letter A." -> {"letter_A", "letter_E"}
      [] OTHER -> {}

\* the success words w such that w.lower() is in token.lower()
SuccessWordsIn(token) ==
    CASE token = "Great! This is the letter A." -> {"great"}
      [] token = "Well done!" -> {"well done"}
      [] token = "Correct, that is perfect." -> {"correct", "perfect"}
      [] OTHER -> {}

RECURSIVE DetectFrom(_, _, _)
\* the loop of _detect_concepts_from_text from the k-th key of CONCEPT_PATTERNS
DetectFrom(concepts, text, k) ==
    IF k > Len(CONCEPT_KEYS) THEN concepts
    ELSE LET concept  == CONCEPT_KEYS[k]
             readable == _asset_to_concept(concept)
             found    == \E i \in 1..Len(text) : concept \in ConceptKeysIn(text[i])
         IN  DetectFrom(IF found /\ ~InList(readable, concepts)
                        THEN Append(concepts, readable) ELSE concepts,
                        text, k + 1)

_detect_concepts_from_text(concepts, text) == DetectFrom(concepts, text, 1)

\* a record_exchange that counts every success word of the response
record_exchange_counting_words(t, user_text, vidya_text, now) ==
    [t EXCEPT
       !.exchanges         = Append(@, [user |-> user_text, vidya |-> vidya_text, time |-> now]),
       !.student_successes = @ + Cardinality(UNION { SuccessWordsIn(vidya_text[i]) :
                                                        i \in 1..Len(vidya_text) }),
       !.concepts_taught   = _detect_concepts_from_text(@, vidya_text)]

\* a record_exchange that notes the concepts of a response without a success
\* word as struggles
record_exchange_noting_struggles(t, user_text, vidya_text, now) ==
    [t EXCEPT
       !.exchanges         = Append(@, [user |-> user_text, vidya |-> vidya_text, time |-> now]),
       !.student_successes = IF \E i \in 1..Len(vidya_text) : SuccessWordsIn(vidya_text[i]) # {}
                             THEN @ + 1 ELSE @,
       !.student_struggles = IF \E i \in 1..Len(vidya_text) : SuccessWordsIn(vidya_text[i]) # {}
                             THEN @ ELSE _detect_concepts_from_text(@, vidya_text),
       !.concepts_taught   = _detect_concepts_from_text(@, vidya_text)]

record_exchange(t, user_text, vidya_text, now) ==
    [t EXCEPT
       !.exchanges         = Append(@, [user |-> user_text, vidya |-> vidya_text, time |-> now]),
       !.student_successes = IF \E i \in 1..Len(vidya_text) : SuccessWordsIn(vidya_text[i]) # {}
                             THEN @ + 1 ELSE @,
       !.concepts_taught   = _detect_concepts_from_text(@, vidya_text)]

\* a build_summary that lists every key shown
build_summary_all_visuals(t) ==
    IF t.concepts_taught = <<>> /\ t.visuals_shown = <<>> THEN NOTHING_COVERED
    ELSE LET concepts_str == IF t.concepts_taught # <<>>
                             THEN JoinLabels(t.concepts_taught, ", ")
                             ELSE <<"general introduction">>
             visuals_str  == IF t.visuals_shown # <<>>
                             THEN Join(t.visuals_shown, ", ") ELSE <<"none">>
             exchanges    == Len(t.exchanges)
         IN  <<"Last session covered: ">> \o concepts_str \o <<". ", "Visual aids shown: ">>
             \o visuals_str
             \o <<". ", "Student had ", ToString(t.student_successes), " successful responses ",
                  "across ", ToString(exchanges), " exchanges. ">>
             \o (IF t.student_struggles # <<>>
                 THEN <<"Student struggled with: ">> \o JoinLabels(t.student_struggles, ", ")
                      \o <<". ", "Review these concepts before introducing new ones.">>
                 ELSE <<"Student was engaged and responsive.">>)

build_summary(t) ==
    IF t.concepts_taught = <<>> /\ t.visuals_shown = <<>> THEN NOTHING_COVERED
    ELSE LET concepts_str == IF t.concepts_taught # <<>>
                             THEN JoinLabels(t.concepts_taught, ", ")
                             ELSE <<"general introduction">>
             first5       == SubSeq(t.visuals_shown, 1,
                                    IF Len(t.visuals_shown) < 5 THEN Len(t.visuals_shown) ELSE 5)
             visuals_str  == IF t.visuals_shown # <<>> THEN Join(first5, ", ") ELSE <<"none">>
             exchanges    == Len(t.exchanges)
         IN  <<"Last session covered: ">> \o concepts_str \o <<". ", "Visual aids shown: ">>
             \o visuals_str
             \o <<". ", "Student had ", ToString(t.student_successes), " successful responses ",
                  "across ", ToString(exchanges), " exchanges. ">>
             \o (IF t.student_struggles # <<>>
                 THEN <<"Student struggled with: ">> \o JoinLabels(t.student_struggles, ", ")
                      \o <<". ", "Review these concepts before introducing new ones.">>
                 ELSE <<"Student was engaged and responsive.">>)

\* SQLite json(): the column rewritten without the spaces json.dumps puts
\* between the items, the same list
json_minify(column) ==
    [i \in 1..Len(column) |->
        IF i > 1 /\ i < Len(column) /\ i % 4 = 1 THEN "," ELSE column[i]]

\* SessionTracker.save at time now: the sessions table after the INSERT
save_sessions(tbl, t, now) ==
    Append(tbl, [ session_id      |-> t.session_id,
                  started_at      |-> t.started_at,
                  ended_at        |-> now,
                  summary         |-> build_summary(t),
                  concepts_taught |-> json_dumps(t.concepts_taught) ])

\* SessionTracker.save: the users table after the UPDATE of topics_completed
save_users(tbl, t) ==
    IF t.concepts_taught = <<>> THEN tbl
    ELSE [s \in DOMAIN tbl |->
            IF s = t.session_id
            THEN [tbl[s] EXCEPT !.topics_completed =
                     IF json_loads(@) = <<>> THEN json_dumps(<<>>) ELSE json_minify(@)]
            ELSE tbl[s]]

\* ------------------------------------------------------------------------
\* The generation engine and the recognized speech: opaque text sources
\* ------------------------------------------------------------------------
COMPLETE_MARKER == <<"[", "ONBOARDING_COMPLETE", "]">>

LLMTexts ==
    { <<QUESTIONS[3], " ", "[", "SHOW:", "letter_A", "]">>,
      <<"Thank you!", " ">> \o COMPLETE_MARKER }

UserTexts == { <<"answer">> }

GREETING == <<"Hello! I am Vidya, your teacher. I am so happy to meet you!", " ", QUESTIONS[1]>>

\* the numbers of the onboarding questions a text asks, in order
QuestionsOf(text) ==
    LET P == {i \in 1..Len(text) : \E q \in 1..ONBOARDING_QUESTIONS : text[i] = QUESTIONS[q]}
        Nth(n) == CHOOSE i \in P : Cardinality({k \in P : k < i}) = n - 1
    IN  [n \in 1..Cardinality(P) |->
            CHOOSE q \in 1..ONBOARDING_QUESTIONS : text[Nth(n)] = QUESTIONS[q]]

\* ------------------------------------------------------------------------
\* The state of one run of bot()
\* ------------------------------------------------------------------------
VARIABLES
    current_session,   \* StudentSession
    messages,          \* the conversation context of the pipeline
    queue,             \* frames queued on the pipeline task, not yet processed
    task_cancelled,    \* task.cancel() was called
    clients,           \* clients connected to the transport
    tts_in,            \* the texts handed to the speech engine, with their origin
    users,             \* db: users table, session_id -> row
    sessions,          \* db: sessions table
    clock,             \* datetime.now()
    connections,       \* visual_channel._connections
    tracker,           \* the SessionTracker objects, first the one of the run; <<>> when
                       \* there is none
    inflight,          \* calls of mark_topic_complete that have read and not yet written
    ev,                \* the handler of bot() or stage of the pipeline that ran last
    turns,             \* recognized utterances so far
    connects,          \* on_client_connected events so far
    save_user_calls,   \* calls of save_user so far
    tracker_saves,     \* calls of SessionTracker.save so far
    completions,       \* calls of complete_onboarding so far
    input,             \* the argument of the library function under study
    output,            \* what it returned, <<>> before it is called
    inbox,             \* websocket -> the messages send_json delivered to it
    closed,            \* the websockets that are closed: send_json on them raises
    sends,             \* calls of send_show and send_hide so far
    call,              \* the last call on visual_channel
    awaiting           \* the calls suspended in an await: send_show in
                       \* "await ws.send_json", complete_onboarding in "await save_user"

vars == <<current_session, messages, queue, task_cancelled, clients, tts_in,
          users, sessions, clock, connections, tracker, inflight, ev, turns, connects,
          save_user_calls, tracker_saves, completions,
          input, output, inbox, closed, sends, call, awaiting>>

\* the state of bot() and of its pipeline
botVars == <<current_session, messages, queue, task_cancelled, clients, tts_in, turns,
             connects, completions>>

\* the state of vidya.db
dbVars == <<users, sessions, clock, save_user_calls>>

\* the library function under study and the websockets of visual_channel
callVars == <<input, output, inbox, closed, sends, call, awaiting>>

\* the state that the handlers of bot() and its pipeline do not touch
libVars == <<connections, tracker, tracker_saves, inflight, callVars>>

\* StudentSession.__init__
StudentSession(session_id) ==
    [ session_id         |-> session_id,
      user               |-> <<>>,
      is_onboarding      |-> FALSE,
      onboarding_answers |-> <<>>,
      messages           |-> <<>> ]

Msg(role, content) == [role |-> role, content |-> content]

TTSSpeakFrame(text) == [type |-> "TTSSpeakFrame", text |-> text]

LLMRunFrame == [type |-> "LLMRunFrame", text |-> <<>>]

\* the rows a users table may hold for the profile built from no answers
StoredRow(session_id, count, done) ==
    [save_user_row(session_id, build_profile_from_onboarding(session_id, <<>>), 0)
        EXCEPT !.session_count = count, !.onboarding_done = done]

\* the tracker of an earlier session in which [SHOW:letter_A] fired
PriorTracker(session_id) == record_visual(SessionTracker(session_id, 0), "letter_A")

PriorSummary == build_summary(PriorTracker(RunSessionId))

\* the row an earlier SessionTracker.save left
SessionRow(session_id) == save_sessions(<<>>, PriorTracker(session_id), 0)[1]

IsOnboarded(tbl, session_id) ==
    session_id \in DOMAIN tbl /\ tbl[session_id].onboarding_done # 0

\* vidya.db as earlier runs may have left it
InitUsers(sid) ==
    LET other == CHOOSE s \in SessionIds : s # sid
        base  == [s \in {other} |-> StoredRow(other, 3, 1)]
    IN  {base} \cup
        { [s \in {other, sid} |-> IF s = sid THEN StoredRow(sid, c, d) ELSE base[other]] :
            c \in 1..2, d \in {1} } \cup
        { [s \in {other, sid} |-> IF s = sid THEN StoredRow(sid, 1, 0) ELSE base[other]] }

InitSessions(sid) ==
    { <<>>, <<SessionRow(sid)>> }

\* bot(): the state when runner.run(task) starts, over the database db
InitBot(usersTables, sessionsTables, trackers) ==
    /\ current_session = StudentSession(RunSessionId)
    /\ messages = << Msg("assistant", GREETING), Msg("system", get_onboarding_prompt) >>
    /\ queue = << TTSSpeakFrame(GREETING), LLMRunFrame >>
    /\ users \in usersTables
    /\ sessions \in sessionsTables
    /\ task_cancelled = FALSE
    /\ clients = 0
    /\ tts_in = {}
    /\ clock = 0
    /\ connections = [s \in {} |-> "ws1"]
    /\ tracker \in trackers
    /\ inflight = <<>>
    /\ ev = "bot"
    /\ turns = 0
    /\ connects = 0
    /\ save_user_calls = 0
    /\ tracker_saves = 0
    /\ completions = 0

\* agent.py builds no SessionTracker
NoTracker == {<<>>}

\* no call on visual_channel yet
NoCall == [op |-> "none", session_id |-> "", failed |-> FALSE, result |-> "returned"]

\* visual_channel = VisualChannel() with every websocket open and silent, and
\* the library function under study about to receive one of inputs
InitCalls(inputs) ==
    /\ input \in inputs
    /\ output = <<>>
    /\ inbox = [ws \in Endpoints |-> <<>>]
    /\ closed = {}
    /\ sends = 0
    /\ call = NoCall
    /\ awaiting = <<>>

NoInput == {<<>>}

Init ==
    /\ InitBot(InitUsers(RunSessionId), InitSessions(RunSessionId), NoTracker)
    /\ InitCalls(NoInput)

\* a run of bot() for a participant who has not completed an onboarding
InitOnboarding ==
    /\ InitBot({tbl \in InitUsers(RunSessionId) : ~IsOnboarded(tbl, RunSessionId)},
               {<<>>}, NoTracker)
    /\ InitCalls(NoInput)

\* ------------------------------------------------------------------------
\* agent.py : helpers of bot()
\* ------------------------------------------------------------------------
sid == current_session.session_id

\* a set_system_prompt that appends to the messages without clearing them
set_system_prompt_patching(prompt) == Append(messages, Msg("system", prompt))

\* set_system_prompt: the messages after it
set_system_prompt(prompt) == << Msg("system", prompt) >>

check_onboarding_complete(text) == Contains(text, COMPLETE_MARKER)

RETURNING_INSTRUCTION ==
    <<"You are Vidya, a teacher. A student just connected.", "Say EXACTLY this and nothing else:">>
    \o GREETING

TRANSITION_INSTRUCTION(name) ==
    <<"Onboarding is complete.", name, "is ready to learn.",
      "Warmly welcome them and begin their very first lesson.">>

\* start_onboarding that stores a first profile when the interview begins
start_onboarding_saving ==
    /\ current_session' = [current_session EXCEPT !.is_onboarding = TRUE]
    /\ messages' = << Msg("system", get_onboarding_prompt) >>
    /\ clock' = clock + 1
    /\ users' = save_user(users, sid,
                          build_profile_from_onboarding(sid, current_session.onboarding_answers),
                          clock')
    /\ save_user_calls' = save_user_calls + 1
    /\ UNCHANGED queue

\* the body of start_onboarding ends with the first messages.append
start_onboarding ==
    /\ current_session' = [current_session EXCEPT !.is_onboarding = TRUE]
    /\ messages' = << Msg("system", get_onboarding_prompt) >>
    /\ UNCHANGED <<queue, users, clock, save_user_calls>>

start_returning_session(user) ==
    /\ current_session' = [current_session EXCEPT !.user = <<user>>]
    /\ clock' = clock + 1
    /\ users' = update_session_count(users, sid, clock')
    /\ messages' = Append(set_system_prompt(build_prompt(user, NoSummary)),
                          Msg("system", RETURNING_INSTRUCTION))
    /\ queue' = Append(queue, LLMRunFrame)
    /\ UNCHANGED save_user_calls

\* the test without the onboarding_done flag
IsReturningAnyRow(existing_user) ==
    existing_user # <<>>

\* "existing_user and existing_user.get('onboarding_done')"
IsReturning(existing_user) ==
    existing_user # <<>> /\ existing_user[1].onboarding_done # 0

on_client_connected ==
    /\ ~task_cancelled
    /\ connects < MaxConnects
    /\ LET existing_user == get_user(users, sid)
       IN  IF IsReturning(existing_user)
           THEN start_returning_session(existing_user[1])
           ELSE start_onboarding
    /\ clients' = clients + 1
    /\ connects' = connects + 1
    /\ ev' = "on_client_connected"
    /\ UNCHANGED <<task_cancelled, tts_in, sessions, turns, completions, libVars>>

\* a disconnect handler that cancels the task only for a resolved profile
on_client_disconnected_resolved_only ==
    /\ ~task_cancelled
    /\ clients > 0
    /\ task_cancelled' = (current_session.user # <<>>)
    /\ queue' = IF current_session.user # <<>> THEN <<>> ELSE queue
    /\ clients' = clients - 1
    /\ ev' = "on_client_disconnected"
    /\ UNCHANGED <<current_session, messages, tts_in, turns, connects, completions,
                   dbVars, libVars>>

on_client_disconnected ==
    /\ ~task_cancelled
    /\ clients > 0
    /\ task_cancelled' = TRUE
    /\ queue' = <<>>
    /\ clients' = clients - 1
    /\ ev' = "on_client_disconnected"
    /\ UNCHANGED <<current_session, messages, tts_in, turns, connects, completions,
                   dbVars, libVars>>

complete_onboarding(llm_response) ==
    /\ ~task_cancelled
    /\ completions < MaxCompletions
    /\ LET profile == build_profile_from_onboarding(sid, current_session.onboarding_answers)
           tbl     == save_user(users, sid, profile, clock + 1)
           user    == get_user(tbl, sid)
       IN  /\ clock' = clock + 1
           /\ users' = tbl
           /\ current_session' = [current_session EXCEPT !.is_onboarding = FALSE, !.user = user]
           /\ messages' = Append(set_system_prompt(build_prompt(user[1], NoSummary)),
                                 Msg("system", TRANSITION_INSTRUCTION(profile.name)))
    /\ queue' = Append(queue, LLMRunFrame)
    /\ save_user_calls' = save_user_calls + 1
    /\ completions' = completions + 1
    /\ ev' = "complete_onboarding"
    /\ UNCHANGED <<task_cancelled, clients, tts_in, sessions, turns, connects, libVars>>

\* ------------------------------------------------------------------------
\* agent.py : the pipeline
\*   transport.input, stt, context_aggregator.user, llm, tts,
\*   transport.output, context_aggregator.assistant
\* ------------------------------------------------------------------------
\* llm -> tts -> context_aggregator.assistant for one generated text
Generated(base, text) ==
    /\ tts_in' = tts_in \cup {[origin |-> "llm", text |-> text]}
    /\ messages' = Append(base, Msg("assistant", text))

\* a recognized utterance of the participant runs through the pipeline, after
\* the frames queued before it
UserSpeaks ==
    /\ ~task_cancelled
    /\ clients > 0
    /\ queue = <<>>
    /\ turns < MaxTurns
    /\ \E heard \in UserTexts, text \in LLMTexts :
          Generated(Append(messages, Msg("user", heard)), text)
    /\ turns' = turns + 1
    /\ ev' = "pipeline"
    /\ UNCHANGED <<current_session, queue, task_cancelled, clients, connects, completions,
                   dbVars, libVars>>

\* the pipeline takes the next frame queued with task.queue_frames
ProcessFrame ==
    /\ ~task_cancelled
    /\ queue # <<>>
    /\ IF Head(queue).type = "TTSSpeakFrame"
       THEN /\ tts_in' = tts_in \cup {[origin |-> "frame", text |-> Head(queue).text]}
            /\ UNCHANGED messages
       ELSE \E text \in LLMTexts : Generated(messages, text)
    /\ queue' = Tail(queue)
    /\ ev' = "pipeline"
    /\ UNCHANGED <<current_session, task_cancelled, clients, turns, connects, completions,
                   dbVars, libVars>>

\* ------------------------------------------------------------------------
\* visual_extractor.py : VisualChannel
\* ------------------------------------------------------------------------
\* a register that releases an id it finds registered with that websocket
register_connections_toggle(conns, session_id, websocket) ==
    IF session_id \in DOMAIN conns /\ conns[session_id] = websocket
    THEN [s \in DOMAIN conns \ {session_id} |-> conns[s]]
    ELSE [s \in DOMAIN conns \cup {session_id} |->
            IF s = session_id THEN websocket ELSE conns[s]]

\* self._connections after self._connections[session_id] = websocket
register_connections(conns, session_id, websocket) ==
    [s \in DOMAIN conns \cup {session_id} |->
        IF s = session_id THEN websocket ELSE conns[s]]

\* self._connections after "if session_id in ...: del ...[session_id]"
unregister_connections(conns, session_id) ==
    [s \in DOMAIN conns \ {session_id} |-> conns[s]]

register(session_id, websocket) ==
    /\ connections' = register_connections(connections, session_id, websocket)
    /\ UNCHANGED <<botVars, dbVars, tracker, tracker_saves, inflight, ev, callVars>>

unregister(session_id) ==
    /\ connections' = unregister_connections(connections, session_id)
    /\ UNCHANGED <<botVars, dbVars, tracker, tracker_saves, inflight, ev, callVars>>

\* the display endpoint of the run's session opens or closes its websocket
\* while the run lasts
Register == ~task_cancelled /\ sid \notin DOMAIN connections /\ register(sid, RunEndpoint)

Unregister == ~task_cancelled /\ sid \in DOMAIN connections /\ unregister(sid)

\* ------------------------------------------------------------------------
\* db.py and session_tracker.py : the operations on vidya.db, called directly
\* ------------------------------------------------------------------------
\* the arguments the operations are called with
Answers ==
    [ name |-> "Asha", language |-> "hi", school_attended |-> "No",
      learning_goal |-> "counting", knows_letters |-> TRUE, can_count_to_10 |-> TRUE ]

Profiles(session_id) ==
    { build_profile_from_onboarding(session_id, <<>>),
      build_profile_from_onboarding(session_id, Answers) }

Topics == {"letter_A"}

\* save_user is called for either session, the other operations for the
\* session of the run

AssetKeys == {"letter_A", "shapes"}

SaveUser ==
    \E session_id \in SessionIds : \E profile \in Profiles(session_id) :
        /\ clock < MaxClock
        /\ clock' = clock + 1
        /\ users' = save_user(users, session_id, profile, clock')
        /\ save_user_calls' = save_user_calls + 1
        /\ ev' = "save_user"
        /\ UNCHANGED <<botVars, libVars, sessions>>

UpdateSessionCount ==
    \E session_id \in {sid} :
        /\ clock < MaxClock
        /\ clock' = clock + 1
        /\ users' = update_session_count(users, session_id, clock')
        /\ ev' = "update_session_count"
        /\ UNCHANGED <<botVars, libVars, sessions, save_user_calls>>

AddStars ==
    \E session_id \in {sid} : \E count \in {1} :
        /\ session_id \in DOMAIN users => users[session_id].total_stars + count <= MaxStars
        /\ users' = add_stars(users, session_id, count)
        /\ ev' = "add_stars"
        /\ UNCHANGED <<botVars, libVars, sessions, clock, save_user_calls>>

\* mark_topic_complete up to its await of the UPDATE: the list it will write
MarkTopicRead ==
    \E session_id \in {sid} : \E topic \in Topics :
        LET user == get_user(users, session_id)
        IN  /\ Len(inflight) < MaxInflight
            /\ user # <<>>
            /\ inflight' = Append(inflight,
                                  [ session_id |-> session_id,
                                    topics     |-> mark_topic_list(user[1].topics_completed, topic) ])
            /\ ev' = "mark_topic_complete"
            /\ UNCHANGED <<botVars, dbVars, connections, tracker, tracker_saves, callVars>>

\* mark_topic_complete, its UPDATE
MarkTopicWrite ==
    \E i \in 1..Len(inflight) :
        /\ users' = mark_topic_update(users, inflight[i].session_id, inflight[i].topics)
        /\ inflight' = SubSeq(inflight, 1, i - 1) \o SubSeq(inflight, i + 1, Len(inflight))
        /\ ev' = "mark_topic_complete"
        /\ UNCHANGED <<botVars, sessions, clock, save_user_calls,
                       connections, tracker, tracker_saves, callVars>>

UpdateLevel ==
    \E session_id \in {sid} : \E subject \in {"numeracy"} : \E level \in {1} :
        /\ users' = update_level(users, session_id, subject, level)
        /\ ev' = "update_level"
        /\ UNCHANGED <<botVars, libVars, sessions, clock, save_user_calls>>

RecordVisual ==
    \E asset_key \in AssetKeys :
        /\ tracker # <<>>
        /\ tracker' = <<record_visual(tracker[1], asset_key)>>
        /\ ev' = "record_visual"
        /\ UNCHANGED <<botVars, dbVars, connections, tracker_saves, inflight, callVars>>

TrackerSave ==
    /\ tracker # <<>>
    /\ clock < MaxClock
    /\ clock' = clock + 1
    /\ sessions' = save_sessions(sessions, tracker[1], clock')
    /\ users' = save_users(users, tracker[1])
    /\ tracker_saves' = tracker_saves + 1
    /\ ev' = "save"
    /\ UNCHANGED <<botVars, save_user_calls, connections, tracker, inflight, callVars>>

\* ------------------------------------------------------------------------
\* session_tracker.py : trackers of several connections over one vidya.db
\* ------------------------------------------------------------------------
NewTracker ==
    \E session_id \in SessionIds :
        /\ Len(tracker) < MaxTrackers
        /\ clock' = clock + 1
        /\ tracker' = Append(tracker, SessionTracker(session_id, clock'))
        /\ ev' = "SessionTracker"
        /\ UNCHANGED <<botVars, users, sessions, save_user_calls, connections,
                       tracker_saves, inflight, callVars>>

TrackerRecordVisual ==
    \E i \in 1..Len(tracker) : \E asset_key \in {"letter_A"} :
        /\ tracker' = [tracker EXCEPT ![i] = record_visual(@, asset_key)]
        /\ ev' = "record_visual"
        /\ UNCHANGED <<botVars, dbVars, connections, tracker_saves, inflight, callVars>>

\* a tracker whose save has run: its row is in the sessions table
IsSaved(tbl, t) ==
    \E k \in 1..Len(tbl) :
        tbl[k].session_id = t.session_id /\ tbl[k].started_at = t.started_at

\* save, called once for a tracker, when its connection ends
TrackerSaveAt ==
    \E i \in 1..Len(tracker) :
        /\ ~IsSaved(sessions, tracker[i])
        /\ clock' = clock + 1
        /\ sessions' = save_sessions(sessions, tracker[i], clock')
        /\ users' = save_users(users, tracker[i])
        /\ tracker_saves' = tracker_saves + 1
        /\ ev' = "save"
        /\ UNCHANGED <<botVars, save_user_calls, connections, tracker, inflight, callVars>>

\* load_last_summary of a tracker: None is <<>>, a summary s is <<s>>
LoadLastSummary ==
    \E i \in 1..Len(tracker) :
        LET found == load_last_summary(sessions, tracker[i].session_id)
        IN  /\ input' = tracker[i].session_id
            /\ \/ found = {} /\ output' = << <<>> >>
               \/ \E summary \in found : output' = << <<summary>> >>
            /\ ev' = "load_last_summary"
            /\ UNCHANGED <<botVars, dbVars, connections, tracker, tracker_saves, inflight,
                           inbox, closed, sends, call, awaiting>>

\* ------------------------------------------------------------------------
\* session_tracker.py : build_summary called on a tracker
\* ------------------------------------------------------------------------
\* the keys record_visual is called with, in two orders, and the empty key
KeyOrders ==
    { <<"letter_A", "shapes", "letter_E", "number_1", "vowel_E", "animals", "letter_A">>,
      <<"animals", "vowel_E", "number_1", "letter_E", "shapes", "letter_A", "fruits">>,
      <<"">> }

VisualRuns ==
    UNION { {SubSeq(order, 1, n) : n \in 0..(IF Len(order) < MaxVisuals THEN Len(order)
                                                                      ELSE MaxVisuals)} :
            order \in KeyOrders }

\* what the tutor says in an exchange
VidyaTexts ==
    { <<"Great! This is the letter A.", " ", "[", "SHOW:", "letter_A", "]">>,
      <<"Let us count: one two three.">>,
      <<"Well done!">>,
      <<"Try again.">> }

RECURSIVE ExchangeRunsOf(_)
ExchangeRunsOf(n) ==
    IF n = 0 THEN {<<>>}
    ELSE {Append(run, text) : run \in ExchangeRunsOf(n - 1), text \in VidyaTexts}

ExchangeRuns == UNION {ExchangeRunsOf(n) : n \in 0..MaxExchanges}

RECURSIVE AfterVisuals(_, _)
AfterVisuals(t, keys) ==
    IF keys = <<>> THEN t ELSE AfterVisuals(record_visual(t, Head(keys)), Tail(keys))

RECURSIVE AfterExchanges(_, _)
AfterExchanges(t, texts) ==
    IF texts = <<>> THEN t
    ELSE AfterExchanges(record_exchange(t, <<"answer">>, Head(texts), t.started_at + 1),
                        Tail(texts))

\* the trackers a session may end with
Trackers ==
    { AfterExchanges(AfterVisuals(SessionTracker(RunSessionId, 0), keys), texts) :
        keys \in VisualRuns, texts \in ExchangeRuns }

BuildSummary ==
    /\ output = <<>>
    /\ output' = <<build_summary(input)>>
    /\ ev' = "build_summary"
    /\ UNCHANGED <<botVars, dbVars, connections, tracker, tracker_saves, inflight,
                   input, inbox, closed, sends, call, awaiting>>

\* ------------------------------------------------------------------------
\* visual_extractor.py : VisualChannel called by its users
\* ------------------------------------------------------------------------
\* a lookup that falls back on the websocket of another session
dict_get_or_any(conns, session_id) ==
    IF session_id \in DOMAIN conns THEN <<conns[session_id]>>
    ELSE IF DOMAIN conns # {} THEN <<conns[CHOOSE s \in DOMAIN conns : TRUE]>>
    ELSE <<>>

\* self._connections.get(session_id)
dict_get(conns, session_id) ==
    IF session_id \in DOMAIN conns THEN <<conns[session_id]>> ELSE <<>>

\* a websocket that hands over the newest message first
ws_send_json_front(box, n, session_id, msg) ==
    <<[n |-> n, session_id |-> session_id, msg |-> msg]>> \o box

\* ws.send_json(msg) on an open websocket: msg follows what was sent before;
\* n and session_id record which call sent it
ws_send_json(box, n, session_id, msg) ==
    Append(box, [n |-> n, session_id |-> session_id, msg |-> msg])

\* the record of a call on visual_channel
Call(op, session_id, was_registered, failed, result) ==
    [ op |-> op, session_id |-> session_id, registered |-> was_registered,
      failed |-> failed, result |-> result ]

send_show(session_id, asset_key) ==
    LET ws == dict_get(connections, session_id)
    IN  /\ sends' = sends + 1
        /\ IF ws = <<>>
           THEN /\ call' = Call("send_show", session_id, FALSE, FALSE, "returned")
                /\ UNCHANGED <<inbox, connections>>
           ELSE IF ws[1] \notin closed
           THEN /\ inbox' = [inbox EXCEPT ![ws[1]] =
                                ws_send_json(@, sends', session_id, [show |-> asset_key])]
                /\ call' = Call("send_show", session_id, TRUE, FALSE, "returned")
                /\ UNCHANGED connections
           ELSE /\ connections' = unregister_connections(connections, session_id)
                /\ call' = Call("send_show", session_id, TRUE, TRUE, "returned")
                /\ UNCHANGED inbox
        /\ ev' = "send_show"
        /\ UNCHANGED <<botVars, dbVars, tracker, tracker_saves, inflight,
                       input, output, closed, awaiting>>

\* a send_hide without its try/except
send_hide_unguarded(session_id) ==
    LET ws == dict_get(connections, session_id)
    IN  /\ sends' = sends + 1
        /\ IF ws = <<>>
           THEN /\ call' = Call("send_hide", session_id, FALSE, FALSE, "returned")
                /\ UNCHANGED inbox
           ELSE IF ws[1] \notin closed
           THEN /\ inbox' = [inbox EXCEPT ![ws[1]] =
                                ws_send_json(@, sends', session_id, [hide |-> TRUE])]
                /\ call' = Call("send_hide", session_id, TRUE, FALSE, "returned")
           ELSE /\ call' = Call("send_hide", session_id, TRUE, TRUE, "raised")
                /\ UNCHANGED inbox
        /\ ev' = "send_hide"
        /\ UNCHANGED <<botVars, dbVars, connections, tracker, tracker_saves, inflight,
                       input, output, closed, awaiting>>

send_hide(session_id) ==
    LET ws == dict_get(connections, session_id)
    IN  /\ sends' = sends + 1
        /\ IF ws = <<>>
           THEN /\ call' = Call("send_hide", session_id, FALSE, FALSE, "returned")
                /\ UNCHANGED inbox
           ELSE IF ws[1] \notin closed
           THEN /\ inbox' = [inbox EXCEPT ![ws[1]] =
                                ws_send_json(@, sends', session_id, [hide |-> TRUE])]
                /\ call' = Call("send_hide", session_id, TRUE, FALSE, "returned")
           ELSE /\ call' = Call("send_hide", session_id, TRUE, TRUE, "returned")
                /\ UNCHANGED inbox
        /\ ev' = "send_hide"
        /\ UNCHANGED <<botVars, dbVars, connections, tracker, tracker_saves, inflight,
                       input, output, closed, awaiting>>

SendShow ==
    \E session_id \in SessionIds : \E asset_key \in {"letter_A"} :
        sends < MaxSends /\ send_show(session_id, asset_key)

SendHide ==
    \E session_id \in SessionIds :
        sends < MaxSends /\ send_hide(session_id)

ChannelRegister ==
    \E session_id \in SessionIds : \E websocket \in Endpoints :
        /\ connections' = register_connections(connections, session_id, websocket)
        /\ call' = Call("register", session_id, session_id \in DOMAIN connections,
                        FALSE, "returned")
        /\ ev' = "register"
        /\ UNCHANGED <<botVars, dbVars, tracker, tracker_saves, inflight,
                       input, output, inbox, closed, sends, awaiting>>

ChannelUnregister ==
    \E session_id \in SessionIds :
        /\ connections' = unregister_connections(connections, session_id)
        /\ call' = Call("unregister", session_id, session_id \in DOMAIN connections,
                        FALSE, "returned")
        /\ ev' = "unregister"
        /\ UNCHANGED <<botVars, dbVars, tracker, tracker_saves, inflight,
                       input, output, inbox, closed, sends, awaiting>>

\* the browser closes a websocket: send_json on it raises from now on
WebsocketCloses ==
    \E websocket \in Endpoints \ closed :
        /\ closed' = closed \cup {websocket}
        /\ UNCHANGED <<botVars, dbVars, connections, tracker, tracker_saves, inflight,
                       ev, input, output, inbox, sends, call, awaiting>>

\* ------------------------------------------------------------------------
\* visual_extractor.py : send_show as a coroutine. It looks the websocket up,
\* suspends in "await ws.send_json", and other callers of visual_channel run
\* until the send succeeds or raises.
\* ------------------------------------------------------------------------
\* send_show up to its await: the call returns at once for an id that is not
\* registered
send_show_begins(session_id, asset_key) ==
    LET ws == dict_get(connections, session_id)
    IN  /\ sends' = sends + 1
        /\ IF ws = <<>>
           THEN /\ call' = Call("send_show", session_id, FALSE, FALSE, "returned")
                /\ UNCHANGED awaiting
           ELSE /\ awaiting' = Append(awaiting, [ n |-> sends', session_id |-> session_id,
                                                  ws |-> ws[1], asset_key |-> asset_key ])
                /\ call' = Call("send_show", session_id, TRUE, FALSE, "awaiting")
        /\ ev' = "send_show"
        /\ UNCHANGED <<botVars, dbVars, connections, tracker, tracker_saves, inflight,
                       input, output, inbox, closed>>

\* send_show from its await on: the send went through, or it raised and the
\* except branch calls self.unregister(session_id)
send_show_ends(i) ==
    LET p == awaiting[i]
    IN  /\ awaiting' = SubSeq(awaiting, 1, i - 1) \o SubSeq(awaiting, i + 1, Len(awaiting))
        /\ input' = p
        /\ IF p.ws \notin closed
           THEN /\ inbox' = [inbox EXCEPT ![p.ws] =
                                ws_send_json(@, p.n, p.session_id, [show |-> p.asset_key])]
                /\ call' = Call("send_show", p.session_id, TRUE, FALSE, "returned")
                /\ UNCHANGED connections
           ELSE /\ connections' = unregister_connections(connections, p.session_id)
                /\ call' = Call("send_show", p.session_id, TRUE, TRUE, "returned")
                /\ UNCHANGED inbox
        /\ ev' = "send_show"
        /\ UNCHANGED <<botVars, dbVars, tracker, tracker_saves, inflight,
                       output, closed, sends>>

SendShowBegins ==
    \E session_id \in SessionIds : \E asset_key \in {"letter_A"} :
        sends < MaxSends /\ send_show_begins(session_id, asset_key)

\* the sends to one websocket end in the order they began
SendShowEnds ==
    \E i \in 1..Len(awaiting) :
        /\ \A j \in 1..(i - 1) : awaiting[j].ws # awaiting[i].ws
        /\ send_show_ends(i)

\* ------------------------------------------------------------------------
\* visual_extractor.py : extract_visuals called on a text
\* ------------------------------------------------------------------------
Marker(key) == <<"[", "SHOW:", key, "]">>

\* what a text is put together from
Pieces ==
    { <<"[">>, <<"]">>, <<" ">>, <<"\t">>, <<"Aaa!">>, <<"Say", " ">>,
      <<"SHOW:", "letter_E">>, Marker("letter_A"), Marker("letter_E") }

RECURSIVE TextsOf(_)
\* the texts of exactly n pieces
TextsOf(n) ==
    IF n = 0 THEN {<<>>}
    ELSE {t \o piece : t \in TextsOf(n - 1), piece \in Pieces}

\* the texts of at most n pieces
TextsUpTo(n) == UNION {TextsOf(k) : k \in 0..n}

ExtractVisuals ==
    /\ output = <<>>
    /\ output' = <<extract_visuals(input)>>
    /\ ev' = "extract_visuals"
    /\ UNCHANGED <<botVars, dbVars, connections, tracker, tracker_saves, inflight,
                   input, inbox, closed, sends, call, awaiting>>

\* the clean text is given to extract_visuals again
ExtractAgain ==
    /\ output # <<>>
    /\ input' = output[1].clean_text
    /\ output' = <<extract_visuals(input')>>
    /\ ev' = "extract_visuals"
    /\ UNCHANGED <<botVars, dbVars, connections, tracker, tracker_saves, inflight,
                   inbox, closed, sends, call, awaiting>>

\* ------------------------------------------------------------------------
\* Specifications
\* ------------------------------------------------------------------------
\* bot() as agent.py wires it: nothing calls complete_onboarding
Next ==
    \/ on_client_connected
    \/ on_client_disconnected
    \/ UserSpeaks
    \/ ProcessFrame
    \/ Register
    \/ Unregister

Spec == Init /\ [][Next]_vars

\* bot() with complete_onboarding called on a response that carries the marker
CompleteOnboarding ==
    \E llm_response \in LLMTexts :
        /\ check_onboarding_complete(llm_response)
        /\ complete_onboarding(llm_response)

NextOnboarding == Next \/ CompleteOnboarding

SpecOnboarding == InitOnboarding /\ [][NextOnboarding]_vars

\* the operations on vidya.db in any order, on the database earlier runs left
\* and with the tracker of the session built at time 0
InitStore ==
    /\ InitBot(InitUsers(RunSessionId), {<<>>}, {<<SessionTracker(RunSessionId, 0)>>})
    /\ InitCalls(NoInput)

NextStore ==
    \/ SaveUser
    \/ UpdateSessionCount
    \/ AddStars
    \/ MarkTopicRead
    \/ MarkTopicWrite
    \/ UpdateLevel
    \/ RecordVisual
    \/ TrackerSave

SpecStore == InitStore /\ [][NextStore]_vars

\* extract_visuals on every text of at most MaxPieces pieces
InitExtract ==
    /\ InitBot({[s \in {} |-> 0]}, {<<>>}, NoTracker)
    /\ InitCalls(TextsUpTo(MaxPieces))

NextExtract == ExtractVisuals \/ ExtractAgain

SpecExtract == InitExtract /\ [][NextExtract]_vars

\* visual_channel used by any number of components, in any order
InitChannel ==
    /\ InitBot({[s \in {} |-> 0]}, {<<>>}, NoTracker)
    /\ InitCalls(NoInput)

NextChannel ==
    \/ ChannelRegister
    \/ ChannelUnregister
    \/ SendShow
    \/ SendHide
    \/ WebsocketCloses

SpecChannel == InitChannel /\ [][NextChannel]_vars

NextAwait ==
    \/ ChannelRegister
    \/ ChannelUnregister
    \/ SendShowBegins
    \/ SendShowEnds
    \/ WebsocketCloses

SpecAwait == InitChannel /\ [][NextAwait]_vars

\* trackers built, fed, saved and asked for the last summary in any order
InitTracker ==
    /\ InitBot({[s \in {} |-> 0]}, {<<>>}, NoTracker)
    /\ InitCalls(NoInput)

NextTracker ==
    \/ NewTracker
    \/ TrackerRecordVisual
    \/ TrackerSaveAt
    \/ LoadLastSummary

SpecTracker == InitTracker /\ [][NextTracker]_vars

\* ------------------------------------------------------------------------
\* onboarding.py : the derivation rules called on a profile
\* ------------------------------------------------------------------------
\* the profiles the derivation rules are called on: what a participant
\* answers about school, goal and motivation
DerivationInputs ==
    [ knows_letters   : BOOLEAN,
      school_attended : {"no", "No", "never", "NEVER", "nahi", "illa", "ledu", "unknown",
                         "yes", "Yes", "primary school"},
      learning_goal   : {"", "farming", "Farming", "office work", "get a job",
                         "numbers and maths", "counting", "science", "farm science",
                         "reading"},
      motivation      : {"", "work", "farming", "for my children and family", "parenting",
                         "business", "science"} ]

AssignLiteracyLevel ==
    /\ output' = <<assign_literacy_level(input)>>
    /\ ev' = "assign_literacy_level"
    /\ UNCHANGED <<botVars, dbVars, connections, tracker, tracker_saves, inflight,
                   input, inbox, closed, sends, call, awaiting>>

AssignLearningPath ==
    /\ output' = <<assign_learning_path(input)>>
    /\ ev' = "assign_learning_path"
    /\ UNCHANGED <<botVars, dbVars, connections, tracker, tracker_saves, inflight,
                   input, inbox, closed, sends, call, awaiting>>

InitDerivation ==
    /\ InitBot({[s \in {} |-> 0]}, {<<>>}, NoTracker)
    /\ InitCalls(DerivationInputs)

NextDerivation ==
    \/ AssignLiteracyLevel
    \/ AssignLearningPath

SpecDerivation == InitDerivation /\ [][NextDerivation]_vars

\* ------------------------------------------------------------------------
\* agent.py, db.py : bot() with a database whose writes may fail
\* (sqlite3 raises from db.execute or db.commit; no caller catches it)
\* ------------------------------------------------------------------------
\* on_client_connected for a returning participant when update_session_count
\* raises: start_returning_session has set the user, and the exception ends
\* it and the handler before build_prompt
on_client_connected_write_fails ==
    /\ ~task_cancelled
    /\ connects < MaxConnects
    /\ LET existing_user == get_user(users, sid)
       IN  /\ IsReturning(existing_user)
           /\ current_session' = [current_session EXCEPT !.user = existing_user]
    /\ clients' = clients + 1
    /\ connects' = connects + 1
    /\ ev' = "on_client_connected raised"
    /\ UNCHANGED <<messages, queue, task_cancelled, tts_in, turns, completions, dbVars,
                   libVars>>

\* complete_onboarding when save_user raises: is_onboarding is cleared, and
\* the exception ends the helper before current_session.user is assigned
complete_onboarding_write_fails ==
    /\ ~task_cancelled
    /\ completions < MaxCompletions
    /\ current_session' = [current_session EXCEPT !.is_onboarding = FALSE]
    /\ save_user_calls' = save_user_calls + 1
    /\ completions' = completions + 1
    /\ ev' = "complete_onboarding raised"
    /\ UNCHANGED <<messages, queue, task_cancelled, clients, tts_in, turns, connects,
                   users, sessions, clock, libVars>>

NextFaults ==
    \/ on_client_connected
    \/ on_client_connected_write_fails
    \/ CompleteOnboarding
    \/ complete_onboarding_write_fails
    \/ on_client_disconnected
    \/ ProcessFrame

SpecFaults == Init /\ [][NextFaults]_vars

\* ------------------------------------------------------------------------
\* db.py : mark_topic_complete called by several tasks for the participant
\* of the run; input lists the topics of the calls made so far
\* ------------------------------------------------------------------------
\* mark_topic_complete up to its UPDATE: the call returns at once when the
\* participant has no row, else it holds the list it will write
MarkTopicCompleteReads ==
    \E topic \in {"letter_A", "letter_E"} :
        LET user == get_user(users, sid)
        IN  /\ Len(input) < MaxMarks
            /\ input' = Append(input, topic)
            /\ inflight' =
                  IF user = <<>> THEN inflight
                  ELSE Append(inflight,
                              [ session_id |-> sid,
                                topics     |-> mark_topic_list(user[1].topics_completed,
                                                               topic) ])
            /\ ev' = "mark_topic_complete"
            /\ UNCHANGED <<botVars, dbVars, connections, tracker, tracker_saves,
                           output, inbox, closed, sends, call, awaiting>>

InitTopics ==
    /\ InitBot(InitUsers(RunSessionId), {<<>>}, NoTracker)
    /\ InitCalls(NoInput)

NextTopics ==
    \/ MarkTopicCompleteReads
    \/ MarkTopicWrite

SpecTopics == InitTopics /\ [][NextTopics]_vars

\* ------------------------------------------------------------------------
\* agent.py : complete_onboarding as a coroutine. It clears is_onboarding,
\* suspends in "await save_user", and the handlers of bot() run until the
\* row is written.
\* ------------------------------------------------------------------------
\* complete_onboarding up to its await
complete_onboarding_begins(llm_response) ==
    /\ ~task_cancelled
    /\ clients > 0
    /\ completions < MaxCompletions
    /\ awaiting = <<>>
    /\ current_session' = [current_session EXCEPT !.is_onboarding = FALSE]
    /\ awaiting' = << [ op |-> "save_user",
                        profile |-> build_profile_from_onboarding(
                                        sid, current_session.onboarding_answers) ] >>
    /\ completions' = completions + 1
    /\ ev' = "complete_onboarding awaits"
    /\ UNCHANGED <<messages, queue, task_cancelled, clients, tts_in, turns, connects,
                   dbVars, connections, tracker, tracker_saves, inflight,
                   input, output, inbox, closed, sends, call>>

\* complete_onboarding from its await on: save_user has written the row and
\* returns it
complete_onboarding_ends ==
    /\ ~task_cancelled
    /\ awaiting # <<>>
    /\ LET profile == awaiting[1].profile
           tbl     == save_user(users, sid, profile, clock + 1)
           user    == get_user(tbl, sid)
       IN  /\ clock' = clock + 1
           /\ users' = tbl
           /\ current_session' = [current_session EXCEPT !.user = user]
           /\ messages' = Append(set_system_prompt(build_prompt(user[1], NoSummary)),
                                 Msg("system", TRANSITION_INSTRUCTION(profile.name)))
    /\ awaiting' = <<>>
    /\ queue' = Append(queue, LLMRunFrame)
    /\ save_user_calls' = save_user_calls + 1
    /\ ev' = "complete_onboarding"
    /\ UNCHANGED <<task_cancelled, clients, tts_in, sessions, turns, connects, completions,
                   connections, tracker, tracker_saves, inflight,
                   input, output, inbox, closed, sends, call>>

CompleteOnboardingBegins ==
    \E llm_response \in LLMTexts :
        /\ check_onboarding_complete(llm_response)
        /\ complete_onboarding_begins(llm_response)

\* on_client_connected for a client that joins while complete_onboarding is
\* suspended
on_client_connected_during_await ==
    /\ ~task_cancelled
    /\ awaiting # <<>>
    /\ connects < MaxConnects + MaxCompletions
    /\ LET existing_user == get_user(users, sid)
       IN  IF IsReturning(existing_user)
           THEN start_returning_session(existing_user[1])
           ELSE start_onboarding
    /\ clients' = clients + 1
    /\ connects' = connects + 1
    /\ ev' = "on_client_connected"
    /\ UNCHANGED <<task_cancelled, tts_in, sessions, turns, completions, libVars>>

NextInterleaved ==
    \/ on_client_connected
    \/ on_client_connected_during_await
    \/ CompleteOnboardingBegins
    \/ complete_onboarding_ends
    \/ on_client_disconnected
    \/ ProcessFrame

SpecInterleaved == InitOnboarding /\ [][NextInterleaved]_vars

\* ------------------------------------------------------------------------
\* curriculum.py : load_curriculum over the files of the curriculum folder
\* ------------------------------------------------------------------------
\* the path of a curriculum file: curriculum/<subject>/level<level>.txt
_get_path(subject, level) == <<"curriculum", subject, "level" \o ToString(level) \o ".txt">>

NO_CURRICULUM == <<"Teach basic literacy - letters A, E, I, O, U and numbers 1 to 5.">>

\* a load_curriculum that does not try level 0 of the subject
load_curriculum_default_subject(files, subject, level) ==
    LET path1 == _get_path(subject, level)
        path3 == IF path1 \notin DOMAIN files THEN _get_path("literacy", 0) ELSE path1
    IN  IF path3 \notin DOMAIN files THEN NO_CURRICULUM ELSE Strip(files[path3])

\* files maps the paths that exist to what the files hold
load_curriculum(files, subject, level) ==
    LET path1 == _get_path(subject, level)
        path2 == IF path1 \notin DOMAIN files THEN _get_path(subject, 0) ELSE path1
        path3 == IF path2 \notin DOMAIN files THEN _get_path("literacy", 0) ELSE path2
    IN  IF path3 \notin DOMAIN files THEN NO_CURRICULUM ELSE Strip(files[path3])

\* the curriculum files there may be, each a text ending in a newline
CurriculumFolders ==
    LET all == {_get_path(subject, level) : subject \in {"literacy", "numeracy"},
                                            level \in 0..MaxLevel}
    IN  { [path \in paths |-> <<"Teach", " ", path[2], " ", path[3], "\n">>] :
            paths \in SUBSET all }

LoadCurriculum ==
    /\ output = <<>>
    /\ output' = <<load_curriculum(input.files, input.subject, input.level)>>
    /\ ev' = "load_curriculum"
    /\ UNCHANGED <<botVars, dbVars, connections, tracker, tracker_saves, inflight,
                   input, inbox, closed, sends, call, awaiting>>

InitCurriculum ==
    /\ InitBot({[s \in {} |-> 0]}, {<<>>}, NoTracker)
    /\ InitCalls([files : CurriculumFolders, subject : {"literacy", "numeracy", "health"},
                  level : 0..(MaxLevel + 1)])

NextCurriculum == LoadCurriculum

SpecCurriculum == InitCurriculum /\ [][NextCurriculum]_vars

\* ------------------------------------------------------------------------
\* prompt_builder.py : build_prompt called on a stored user
\* ------------------------------------------------------------------------
\* the users get_user returns, after one or more sessions
PromptUsers ==
    { get_user([s \in {RunSessionId} |->
                  [StoredRow(RunSessionId, count, 1)
                     EXCEPT !.name = name, !.current_subject = subject,
                            !.current_level = level]], RunSessionId)[1] :
        name \in {"Asha", "Friend"}, subject \in {"literacy", "numeracy"},
        level \in 0..1, count \in 1..MaxSessionCount }

BuildPrompt ==
    /\ output = <<>>
    /\ output' = <<build_prompt(input.user, input.last_session_summary)>>
    /\ ev' = "build_prompt"
    /\ UNCHANGED <<botVars, dbVars, connections, tracker, tracker_saves, inflight,
                   input, inbox, closed, sends, call, awaiting>>

InitPrompt ==
    /\ InitBot({[s \in {} |-> 0]}, {<<>>}, NoTracker)
    /\ InitCalls([user : PromptUsers,
                  last_session_summary : {NoSummary, PriorSummary, NOTHING_COVERED}])

NextPrompt == BuildPrompt

SpecPrompt == InitPrompt /\ [][NextPrompt]_vars

\* ------------------------------------------------------------------------
\* session_tracker.py : record_visual and record_exchange called on the
\* tracker of a session, in any order
\* ------------------------------------------------------------------------
CallRecordVisual ==
    \E asset_key \in {"letter_A", "letter_E", "shapes"} :
        /\ tracker' = [tracker EXCEPT ![1] = record_visual(@, asset_key)]
        /\ input' = [asset_key |-> asset_key]
        /\ ev' = "record_visual"
        /\ UNCHANGED <<botVars, dbVars, connections, tracker_saves, inflight,
                       output, inbox, closed, sends, call, awaiting>>

\* the time of an exchange is the clock, which runs on between exchanges
CallRecordExchange ==
    \E vidya_text \in {<<"Well done!">>, <<"Letter E comes after the letter A.">>,
                       <<"Correct, that is perfect.">>} :
      \E now \in {clock, clock + 1} :
        /\ Len(tracker[1].exchanges) < MaxExchanges
        /\ clock' = now
        /\ tracker' = [tracker EXCEPT
                          ![1] = record_exchange(@, <<"answer">>, vidya_text, now)]
        /\ input' = [vidya_text |-> vidya_text]
        /\ ev' = "record_exchange"
        /\ UNCHANGED <<botVars, users, sessions, save_user_calls, connections,
                       tracker_saves, inflight, output, inbox, closed, sends, call,
                       awaiting>>

InitRecord ==
    /\ InitBot({[s \in {} |-> 0]}, {<<>>}, {<<SessionTracker(RunSessionId, 0)>>})
    /\ InitCalls(NoInput)

NextRecord ==
    \/ CallRecordVisual
    \/ CallRecordExchange

SpecRecord == InitRecord /\ [][NextRecord]_vars

\* ------------------------------------------------------------------------
\* session_tracker.py : the tracker of a session fed, asked for its summary
\* and saved, in any order
\* ------------------------------------------------------------------------
\* record_exchange with the time the clock shows
TrackerRecordExchange ==
    \E i \in 1..Len(tracker) :
      \E vidya_text \in {<<"Well done!">>, <<"Letter E comes after the letter A.">>} :
        /\ Len(tracker[i].exchanges) < MaxExchanges
        /\ tracker' = [tracker EXCEPT
                          ![i] = record_exchange(@, <<"answer">>, vidya_text, clock)]
        /\ ev' = "record_exchange"
        /\ UNCHANGED <<botVars, dbVars, connections, tracker_saves, inflight, callVars>>

CallBuildSummary ==
    \E i \in 1..Len(tracker) :
        /\ output' = <<build_summary(tracker[i])>>
        /\ ev' = "build_summary"
        /\ UNCHANGED <<botVars, dbVars, connections, tracker, tracker_saves, inflight,
                       input, inbox, closed, sends, call, awaiting>>

NextLifetime ==
    \/ TrackerRecordVisual
    \/ TrackerRecordExchange
    \/ CallBuildSummary
    \/ TrackerSaveAt

SpecLifetime == InitRecord /\ [][NextLifetime]_vars

\* ------------------------------------------------------------------------
\* db.py : save_user and get_user called in any order, on a new vidya.db and
\* on the database earlier runs left; input holds, for every session id, the
\* profile passed to the last save_user for it, and output the session id and
\* the result of the last call
\* ------------------------------------------------------------------------
CallSaveUser ==
    \E session_id \in SessionIds : \E profile \in Profiles(session_id) :
        /\ clock < MaxClock
        /\ clock' = clock + 1
        /\ users' = save_user(users, session_id, profile, clock')
        /\ save_user_calls' = save_user_calls + 1
        /\ input' = [input EXCEPT ![session_id] = <<profile>>]
        /\ output' = <<session_id, get_user(users', session_id)>>
        /\ ev' = "save_user"
        /\ UNCHANGED <<botVars, sessions, connections, tracker, tracker_saves, inflight,
                       inbox, closed, sends, call, awaiting>>

CallGetUser ==
    \E session_id \in SessionIds :
        /\ output' = <<session_id, get_user(users, session_id)>>
        /\ ev' = "get_user"
        /\ UNCHANGED <<botVars, dbVars, connections, tracker, tracker_saves, inflight,
                       input, inbox, closed, sends, call, awaiting>>

InitRoundTrip ==
    /\ InitBot(InitUsers(RunSessionId) \cup {[s \in {} |-> 0]}, {<<>>}, NoTracker)
    /\ InitCalls({[s \in SessionIds |-> <<>>]})

NextRoundTrip ==
    \/ CallSaveUser
    \/ CallGetUser

SpecRoundTrip == InitRoundTrip /\ [][NextRoundTrip]_vars

\* build_summary on every tracker of Trackers
InitSummary ==
    /\ InitBot({[s \in {} |-> 0]}, {<<>>}, NoTracker)
    /\ InitCalls(Trackers)

NextSummary == BuildSummary

SpecSummary == InitSummary /\ [][NextSummary]_vars

\* ------------------------------------------------------------------------
\* Properties of the orchestrator
\* ------------------------------------------------------------------------
EnteredOnboarding ==
    /\ current_session.is_onboarding
    /\ messages = << Msg("system", get_onboarding_prompt) >>

\* the utterances of the participant in the conversation context
AnswersGiven == Cardinality({i \in 1..Len(messages) : messages[i].role = "user"})

RECURSIVE QuestionsOfAll(_)
\* the questions asked by the assistant turns of msgs, in order
QuestionsOfAll(msgs) ==
    IF msgs = <<>> THEN <<>>
    ELSE (IF Head(msgs).role = "assistant" THEN QuestionsOf(Head(msgs).content) ELSE <<>>)
         \o QuestionsOfAll(Tail(msgs))

\* the questions put to the participant in the onboarding run: question 1 by
\* the greeting of bot(), the others by the assistant turns since start_onboarding
AskedInRun == <<1>> \o QuestionsOfAll(messages)

IsPrefix(a, b) == Len(a) <= Len(b) /\ \A i \in 1..Len(a) : a[i] = b[i]

AllQuestions == [q \in 1..ONBOARDING_QUESTIONS |-> q]

\* C1: a connect event looks the profile of the session id up and enters
\* ONBOARDING (onboarding flag set, context seeded with the onboarding prompt)
\* exactly when there is no profile or its onboarding_done flag is unset;
\* otherwise it enters TEACHING with the stored profile as the active user, the
\* teaching prompt of that profile as context and a generation requested.
C1_ConnectDecidesMode ==
    [][ (ev' = "on_client_connected" /\ connects' # connects) =>
          LET e == get_user(users, sid)
              isNew == e = <<>> \/ e[1].onboarding_done = 0
          IN  /\ EnteredOnboarding' <=> isNew
              /\ ~isNew =>
                    /\ current_session'.user = e
                    /\ messages'[1] = Msg("system", build_prompt(e[1], NoSummary))
                    /\ queue' # <<>> /\ queue'[Len(queue')] = LLMRunFrame ]_vars

\* a returning participant has connected: TEACHING with the stored profile
C1_Witness ==
    /\ ev = "on_client_connected"
    /\ current_session.user # <<>>
    /\ ~current_session.is_onboarding
    /\ users[sid].session_count = current_session.user[1].session_count + 1

\* C2: for a new identity the connect enters ONBOARDING with question 1
\* issued, and once the participant has given 7 answers a profile with
\* onboarding_done = 1 is stored under the identity and the instruction to
\* begin teaching, naming the participant, is in the context.
C2_SevenAnswersPersistProfile ==
    (connects > 0 /\ (current_session.is_onboarding \/ completions > 0)) =>
        /\ ev = "on_client_connected" =>
              \/ \E i \in 1..Len(queue) : queue[i] = TTSSpeakFrame(GREETING)
              \/ [origin |-> "frame", text |-> GREETING] \in tts_in
        /\ turns >= ONBOARDING_QUESTIONS =>
              /\ sid \in DOMAIN users
              /\ users[sid].onboarding_done = 1
              /\ \E i \in 1..Len(messages) :
                    messages[i] = Msg("system", TRANSITION_INSTRUCTION(users[sid].name))

\* C3: in an onboarding run the questions are asked one at a time in the
\* order 1..7, none skipped or repeated, and all 7 once 7 answers are given.
C3_QuestionsInOrder ==
    current_session.is_onboarding =>
        /\ IsPrefix(AskedInRun, AllQuestions)
        /\ \A i \in 1..Len(messages) :
              messages[i].role = "assistant" => Len(QuestionsOf(messages[i].content)) <= 1
        /\ AnswersGiven >= ONBOARDING_QUESTIONS => AskedInRun = AllQuestions

\* C4: no generated text reaches the speech engine with a [SHOW:key] marker
\* in it, and every generated text is recorded by the session tracker.
C4_OutputExtractedAndTracked ==
    \A r \in tts_in :
        r.origin = "llm" =>
            /\ ~HasMarker(r.text)
            /\ tracker # <<>>
            /\ \E i \in 1..Len(tracker[1].exchanges) : tracker[1].exchanges[i].vidya = r.text

\* C5: when the disconnect handler returns, SessionTracker.save has run
\* exactly once if the connection was in TEACHING (profile resolved, not in
\* onboarding) and not at all if it was in onboarding.
C5_SaveOnceAtDisconnect ==
    ev = "on_client_disconnected" =>
        IF current_session.user # <<>> /\ ~current_session.is_onboarding
        THEN tracker_saves = 1
        ELSE tracker_saves = 0

\* C6: after the connect of a returning participant with a saved session
\* summary, the teaching prompt of the context holds the text of that summary
\* and the instruction to review it before new material.
C6_ContextHoldsLastSummary ==
    (/\ ev = "on_client_connected"
     /\ current_session.user # <<>>
     /\ load_last_summary(sessions, sid) # {}) =>
        \E summary \in load_last_summary(sessions, sid) :
            /\ Contains(messages[1].content, summary)
            /\ Contains(messages[1].content, <<REVIEW_INSTRUCTION>>)

C8_OnboardingDoneNeverCleared ==
    [][ \A s \in DOMAIN users :
            users[s].onboarding_done = 1 =>
                s \in DOMAIN users' /\ users'[s].onboarding_done = 1 ]_vars

\* a profile that was complete at the start, after each kind of write on it
C8_Witness ==
    /\ ev = "save"
    /\ tracker[1].concepts_taught # <<>>
    /\ RunSessionId \in DOMAIN users
    /\ users[RunSessionId].onboarding_done = 1
    /\ users[RunSessionId].created_at = 0
    /\ users[RunSessionId].total_stars > 0
    /\ users[RunSessionId].current_subject = "numeracy"
    /\ json_loads(users[RunSessionId].topics_completed) # <<>>
    /\ \E s \in DOMAIN users : users[s].created_at > 0 /\ users[s].onboarding_done = 1

\* C9: when the disconnect handler returns, the visual channel has no
\* connection registered for the session id of the connection.
C9_DisconnectReleasesChannel ==
    ev = "on_client_disconnected" => sid \notin DOMAIN connections

\* C10: every disconnect, in onboarding or in teaching, with or without a
\* resolved profile, cancels the pipeline task: no queued frame is left and
\* nothing is generated or spoken afterwards.
C10_DisconnectCancelsTask ==
    /\ [](ev = "on_client_disconnected" => task_cancelled /\ queue = <<>>)
    /\ [][task_cancelled => (tts_in' = tts_in /\ messages' = messages)]_vars

\* a disconnect in onboarding, no profile resolved, frames still queued before
C10_Witness ==
    /\ ev = "on_client_disconnected"
    /\ current_session.user = <<>>
    /\ current_session.is_onboarding
    /\ task_cancelled

\* ------------------------------------------------------------------------
\* Properties of the directive extractor
\* ------------------------------------------------------------------------
Called(op) == ev = op /\ output # <<>>

\* C11: the clean text extract_visuals returns holds no [SHOW:key] marker, and
\* extract_visuals on it returns it unchanged with an empty key list.
C11_CleanTextIsFixpoint ==
    Called("extract_visuals") =>
        /\ ~HasMarker(output[1].clean_text)
        /\ extract_visuals(output[1].clean_text)
              = [clean_text |-> output[1].clean_text, asset_keys |-> <<>>]

\* the matches of SHOW_PATTERN in text, told without scanning: at is a list
\* of match positions, left to right and not overlapping, and every position
\* where the pattern matches lies inside one of them
IsOccurrenceList(text, at) ==
    /\ \A n \in 1..Len(at) : MatchEnd(text, at[n]) # 0
    /\ \A n \in 1..(Len(at) - 1) : MatchEnd(text, at[n]) < at[n + 1]
    /\ \A i \in 1..Len(text) :
          MatchEnd(text, i) # 0 =>
              \E n \in 1..Len(at) : at[n] <= i /\ i <= MatchEnd(text, at[n])

\* the occurrences of a marker in text
Occurrences(text) ==
    LET starts == {i \in 1..Len(text) : MatchEnd(text, i) # 0}
    IN  {at \in UNION {[1..n -> starts] : n \in 0..Cardinality(starts)} :
            IsOccurrenceList(text, at)}

\* C12: extract_visuals returns one key per occurrence of a marker, in the
\* order of the occurrences, a key that occurs twice being returned twice.
C12_OneKeyPerOccurrence ==
    Called("extract_visuals") =>
        /\ Occurrences(input) # {}
        /\ \A at \in Occurrences(input) :
              /\ Len(output[1].asset_keys) = Len(at)
              /\ \A n \in 1..Len(at) : output[1].asset_keys[n] = GroupOne(input, at[n])

C12_Witness ==
    /\ Called("extract_visuals")
    /\ input = Marker("letter_E") \o <<"Aaa!">> \o Marker("letter_A") \o Marker("letter_E")
    /\ output[1].asset_keys = << <<"letter_E">>, <<"letter_A">>, <<"letter_E">> >>

\* no two whitespace characters next to each other
NoWhitespaceRun(text) ==
    \A i \in 1..(Len(text) - 1) : ~(text[i] \in Whitespace /\ text[i + 1] \in Whitespace)

\* C13: the clean text has no whitespace at either end, and where the text
\* given had no run of whitespace (so that every run is one a removed marker
\* left behind) the clean text has none either.
C13_WhitespaceNormalised ==
    Called("extract_visuals") =>
        /\ output[1].clean_text # <<>> =>
              /\ output[1].clean_text[1] \notin Whitespace
              /\ output[1].clean_text[Len(output[1].clean_text)] \notin Whitespace
        /\ NoWhitespaceRun(input) => NoWhitespaceRun(output[1].clean_text)

\* ------------------------------------------------------------------------
\* Properties of the directive channel
\* ------------------------------------------------------------------------
\* C14: send_show for a session id with no registered websocket delivers
\* nothing, returns normally and leaves the registry as it was.
C14_SendShowUnregisteredIsNoOp ==
    [][ (sends' # sends /\ call'.op = "send_show"
            /\ call'.session_id \notin DOMAIN connections) =>
          /\ connections' = connections
          /\ inbox' = inbox
          /\ call'.result = "returned" ]_vars

C14_Witness ==
    /\ call.op = "send_show"
    /\ ~call.registered
    /\ call.session_id \notin DOMAIN connections
    /\ DOMAIN connections # {}
    /\ \A ws \in Endpoints : inbox[ws] = <<>>

\* C15: after a send_show or send_hide whose delivery failed, the session id
\* is not registered.
C15_FailedSendUnregisters ==
    (call.op \in {"send_show", "send_hide"} /\ call.failed) =>
        call.session_id \notin DOMAIN connections

\* C16: send_show and send_hide return normally, whether or not a websocket
\* is registered and whether or not its send_json raises.
C16_SendsNeverRaise ==
    call.op \in {"send_show", "send_hide"} => call.result = "returned"

C16_Witness ==
    /\ call.op = "send_hide"
    /\ call.registered
    /\ call.failed
    /\ call.result = "returned"

C18_RegistryIdempotent ==
    /\ \A session_id \in SessionIds :
          /\ \A websocket \in Endpoints :
                LET once == register_connections(connections, session_id, websocket)
                IN  register_connections(once, session_id, websocket) = once
          /\ LET once == unregister_connections(connections, session_id)
             IN  unregister_connections(once, session_id) = once
          /\ session_id \notin DOMAIN connections =>
                unregister_connections(connections, session_id) = connections
    /\ call.op \in {"register", "unregister"} => call.result = "returned"

C18_Witness ==
    /\ call.op = "unregister"
    /\ ~call.registered
    /\ DOMAIN connections # {}

\* ------------------------------------------------------------------------
\* Properties of the session tracker
\* ------------------------------------------------------------------------
\* the rows of session_id in the sessions table, in the order they were saved
RowsOf(tbl, session_id) == SelectSeq(tbl, LAMBDA row : row.session_id = session_id)

HoldsAt(text, p, part) ==
    /\ p + Len(part) - 1 <= Len(text)
    /\ \A k \in 1..Len(part) : text[p + k - 1] = part[k]

\* the first n items of list, all of them when it has fewer
FirstN(list, n) == [k \in 1..(IF Len(list) < n THEN Len(list) ELSE n) |-> list[k]]

\* C20: build_summary returns the fixed sentence exactly when no concept and
\* no key is recorded; otherwise the synopsis lists the concepts in recorded
\* order joined by ", ", lists the first five keys and no more, and gives the
\* counts as "N successful responses" and "M exchanges".
C20_SummaryRendersTheRecord ==
    Called("build_summary") =>
        LET t == input
            synopsis == output[1]
        IN  /\ synopsis = NOTHING_COVERED
                <=> (t.concepts_taught = <<>> /\ t.visuals_shown = <<>>)
            /\ synopsis # NOTHING_COVERED =>
                  /\ t.concepts_taught # <<>> =>
                        HoldsAt(synopsis, 1,
                                <<"Last session covered: ">>
                                \o JoinLabels(t.concepts_taught, ", ") \o <<". ">>)
                  /\ t.visuals_shown # <<>> =>
                        \E p \in 1..Len(synopsis) :
                            HoldsAt(synopsis, p,
                                    <<"Visual aids shown: ">>
                                    \o Join(FirstN(t.visuals_shown, 5), ", ") \o <<". ">>)
                  /\ Contains(synopsis, <<ToString(t.student_successes), " successful responses ">>)
                  /\ Contains(synopsis, <<ToString(Len(t.exchanges)), " exchanges. ">>)

C20_Witness ==
    /\ Called("build_summary")
    /\ Len(input.visuals_shown) = 6
    /\ Len(input.concepts_taught) >= 6
    /\ input.student_successes = 1
    /\ Len(input.exchanges) = 2
    /\ ~Contains(output[1], <<input.visuals_shown[6]>>)

\* ------------------------------------------------------------------------
\* C21: the record of a tracker only grows
\* ------------------------------------------------------------------------
\* the keys of list a are all in list b
KeysKept(a, b) == \A k \in 1..Len(a) : InList(a[k], b)

\* C21: whatever record_visual and record_exchange calls are made, the key
\* passed to record_visual is in the shown keys after the call, every
\* record_exchange call adds exactly one stored exchange and nothing else
\* changes their number, and no shown key and no stored exchange is removed.
C21_RecordOnlyGrows ==
    [][ /\ KeysKept(tracker[1].visuals_shown, tracker'[1].visuals_shown)
        /\ IsPrefix(tracker[1].exchanges, tracker'[1].exchanges)
        /\ Len(tracker'[1].exchanges) =
              Len(tracker[1].exchanges) + (IF ev' = "record_exchange" THEN 1 ELSE 0)
        /\ ev' = "record_visual" =>
              InList(input'.asset_key, tracker'[1].visuals_shown) ]_vars

\* a key is recorded again after another key and between exchanges
C21_Witness ==
    /\ ev = "record_visual"
    /\ input.asset_key = "letter_A"
    /\ tracker[1].visuals_shown = <<"letter_A", "letter_E">>
    /\ Len(tracker[1].exchanges) = MaxExchanges
\* ------------------------------------------------------------------------
\* C22, C23: the derivation rules
\* ------------------------------------------------------------------------
\* C22: assign_literacy_level returns 0 when knows_letters is false and the
\* school answer is "no", 1 when knows_letters is true and the school answer
\* is "no", and 2 when the school answer is "yes", whatever knows_letters is.
C22_LiteracyLevelTable ==
    Called("assign_literacy_level") =>
        /\ (~input.knows_letters /\ input.school_attended = "no") => output[1] = 0
        /\ (input.knows_letters /\ input.school_attended = "no") => output[1] = 1
        /\ input.school_attended = "yes" => output[1] = 2

\* schooling without letters is level 2
C22_Witness ==
    /\ Called("assign_literacy_level")
    /\ ~input.knows_letters
    /\ input.school_attended = "yes"
    /\ output[1] = 2

\* the rules in their priority order: the keywords each looks for in the
\* goal and in the motivation, and the path it gives
PathRules ==
    << [ goal |-> {"farm"}, motivation |-> {"farm", "work"},
         path |-> <<"literacy", "numeracy", "life_skills", "science", "vocational">> ],
       [ goal |-> {}, motivation |-> {"child", "family", "parent"},
         path |-> <<"literacy", "numeracy", "health", "life_skills", "science">> ],
       [ goal |-> {"job", "work"}, motivation |-> {"business"},
         path |-> <<"literacy", "numeracy", "life_skills", "civics", "vocational">> ],
       [ goal |-> {"math", "number", "count"}, motivation |-> {},
         path |-> <<"numeracy", "literacy", "life_skills", "science">> ],
       [ goal |-> {"science"}, motivation |-> {},
         path |-> <<"literacy", "numeracy", "science", "geography", "life_skills">> ] >>

BalancedPath == <<"literacy", "numeracy", "life_skills">>

\* the k-th rule finds one of its keywords in the profile
RuleMatches(k, profile) ==
    \/ \E kw \in PathRules[k].goal : In(kw, Lower(profile.learning_goal))
    \/ \E kw \in PathRules[k].motivation : In(kw, Lower(profile.motivation))

\* C23: assign_learning_path returns the path of the first rule, in the order
\* work/farming, family/parenting, job-seeking, numeracy-focus,
\* science-interest, that finds one of its keywords, and the balanced path
\* when no rule does; the result is always one of these six paths.
C23_FirstMatchingRuleWins ==
    Called("assign_learning_path") =>
        LET matching == {k \in 1..Len(PathRules) : RuleMatches(k, input)}
        IN  /\ matching = {} => output[1] = BalancedPath
            /\ \A k \in matching :
                  (\A j \in matching : k <= j) => output[1] = PathRules[k].path
            /\ output[1] \in {PathRules[k].path : k \in 1..Len(PathRules)} \cup {BalancedPath}

\* the family rule and the science rule both match: the family path is returned
C23_Witness ==
    /\ Called("assign_learning_path")
    /\ RuleMatches(2, input) /\ RuleMatches(5, input) /\ ~RuleMatches(1, input)
    /\ output[1] = PathRules[2].path
\* ------------------------------------------------------------------------
\* C24: the last-session block of the prompt
\* ------------------------------------------------------------------------
\* the prompt holds the summary under its header, followed by the review instruction
HoldsSummary(prompt, summary) ==
    Contains(prompt, <<LAST_SESSION_HEADER, "\n">> \o summary
                     \o <<"\n", "\n", REVIEW_INSTRUCTION>>)

\* C24 as claimed: the prompt holds the summary and the review instruction
\* when a summary is given, and the first-session instruction whenever no
\* summary is given, whatever the session count of the profile.
C24_WelcomeWheneverNoSummary ==
    Called("build_prompt") =>
        IF input.last_session_summary # NoSummary
        THEN HoldsSummary(output[1], input.last_session_summary)
        ELSE Contains(output[1], <<FIRST_SESSION_INSTRUCTION>>)

\* C24 amended: the prompt holds the summary and the review instruction when
\* a summary is given; when none is given it holds the first-session
\* instruction if and only if the session count of the profile is 1, and
\* never the review instruction.
C24_WelcomeOnFirstSessionOnly ==
    Called("build_prompt") =>
        IF input.last_session_summary # NoSummary
        THEN HoldsSummary(output[1], input.last_session_summary)
        ELSE /\ Contains(output[1], <<FIRST_SESSION_INSTRUCTION>>)
                  <=> input.user.session_count = 1
             /\ ~Contains(output[1], <<REVIEW_INSTRUCTION>>)
             /\ ~Contains(output[1], <<LAST_SESSION_HEADER>>)

\* a later session without a summary: no welcome in the prompt
C24_Witness ==
    /\ Called("build_prompt")
    /\ input.last_session_summary = NoSummary
    /\ input.user.session_count > 1
    /\ ~Contains(output[1], <<FIRST_SESSION_INSTRUCTION>>)
\* ------------------------------------------------------------------------
\* C25: the fallback chain of load_curriculum
\* ------------------------------------------------------------------------
\* C25: load_curriculum returns the text of the file of (subject, level) when
\* there is one, else the text of level 0 of the subject, else the text of
\* literacy level 0, else the hard-coded string; it returns a text for every
\* subject, level and set of files. The text of a file is what it holds
\* without the white space around it.
C25_FallbackChain ==
    Called("load_curriculum") =>
        LET files   == input.files
            exact   == _get_path(input.subject, input.level)
            level0  == _get_path(input.subject, 0)
            default == _get_path("literacy", 0)
            Has(path) == path \in DOMAIN files
        IN  /\ Has(exact) => output[1] = Strip(files[exact])
            /\ (~Has(exact) /\ Has(level0)) => output[1] = Strip(files[level0])
            /\ (~Has(exact) /\ ~Has(level0) /\ Has(default)) =>
                  output[1] = Strip(files[default])
            /\ (~Has(exact) /\ ~Has(level0) /\ ~Has(default)) => output[1] = NO_CURRICULUM

\* a subject without files, while another level of literacy exists: literacy level 0
C25_Witness ==
    /\ Called("load_curriculum")
    /\ input.subject = "health"
    /\ input.level = 1
    /\ DOMAIN input.files = {_get_path("literacy", 0), _get_path("numeracy", 1)}
    /\ output[1] = <<"Teach", " ", "literacy", " ", "level0.txt">>
\* ------------------------------------------------------------------------
\* C26: a failing write of the Profile Store
\* ------------------------------------------------------------------------
\* the context and the queue as the teaching flow leaves them for a user
InTeachingFlow(user) ==
    /\ user # <<>>
    /\ messages # <<>>
    /\ messages[1] = Msg("system", build_prompt(user[1], NoSummary))
    /\ queue # <<>>
    /\ queue[Len(queue)] = LLMRunFrame

\* C26: when a write of the Profile Store fails, the handler that made it
\* does not end with the error: the session goes on without the write, in
\* its teaching flow, with the teaching context of the participant set and a
\* run of the generation engine queued.
C26_FailedWriteSessionProceeds ==
    /\ ev = "on_client_connected raised" => InTeachingFlow(current_session.user)
    /\ ev = "complete_onboarding raised" =>
          InTeachingFlow(get_user(save_user(users, sid,
                                            build_profile_from_onboarding(
                                                sid, current_session.onboarding_answers),
                                            clock), sid))
C28_ConnectWritesSessionCountOnly ==
    [][ (ev' = "on_client_connected" /\ connects' # connects) =>
          /\ sessions' = sessions
          /\ IF EnteredOnboarding'
             THEN users' = users
             ELSE /\ DOMAIN users' = DOMAIN users
                  /\ \A s \in DOMAIN users \ {sid} : users'[s] = users[s]
                  /\ users'[sid].session_count = users[sid].session_count + 1
                  /\ users'[sid] = [users[sid] EXCEPT
                                       !.session_count = users'[sid].session_count,
                                       !.last_seen = users'[sid].last_seen] ]_vars

\* a third session of the participant is counted, next to the row of another
C28_Witness ==
    /\ ev = "on_client_connected"
    /\ ~current_session.is_onboarding
    /\ users[sid].session_count = 3
    /\ users[sid].last_seen = clock
    /\ \E s \in DOMAIN users \ {sid} : users[s].last_seen = 0
\* ------------------------------------------------------------------------
\* C29: who receives what
\* ------------------------------------------------------------------------
\* C29: a message reaches a websocket only by a send_show or send_hide for a
\* session id under which that websocket is registered when the call is made,
\* it is {"show": key} for send_show and {"hide": true} for send_hide, and no
\* other websocket receives anything by that call.
C29_DeliveredToRegisteredEndpointOnly ==
    [][ \A ws \in Endpoints :
          inbox'[ws] # inbox[ws] =>
            /\ Len(inbox'[ws]) = Len(inbox[ws]) + 1
            /\ IsPrefix(inbox[ws], inbox'[ws])
            /\ ev' \in {"send_show", "send_hide"}
            /\ call'.session_id \in DOMAIN connections
            /\ connections[call'.session_id] = ws
            /\ LET m == inbox'[ws][Len(inbox'[ws])]
               IN  /\ m.session_id = call'.session_id
                   /\ ev' = "send_show" => m.msg = [show |-> "letter_A"]
                   /\ ev' = "send_hide" => m.msg = [hide |-> TRUE]
            /\ \A other \in Endpoints \ {ws} : inbox'[other] = inbox[other] ]_vars

\* ws2 has replaced ws1 under s1 and ws1 is registered under s2: a send for
\* s1 reaches ws2 and not ws1
C29_Witness ==
    /\ ev = "send_hide"
    /\ call.session_id = "s1"
    /\ connections = [s \in SessionIds |-> IF s = "s1" THEN "ws2" ELSE "ws1"]
    /\ Len(inbox["ws2"]) = 1
    /\ inbox["ws2"][1].session_id = "s1"
    /\ inbox["ws1"] = <<>>
\* ------------------------------------------------------------------------
\* C30: a send that fails after its id was registered anew
\* ------------------------------------------------------------------------
\* C30: a send_show that fails unregisters only the websocket it sent to: when
\* the id is registered with another websocket by the time the send fails,
\* the registry is left as it is.
C30_FailureKeepsNewRegistration ==
    [][ (/\ ev' = "send_show"
         /\ Len(awaiting') < Len(awaiting)
         /\ call'.failed
         /\ dict_get(connections, input'.session_id) # <<>>
         /\ dict_get(connections, input'.session_id) # <<input'.ws>>)
        => connections' = connections ]_vars
\* ------------------------------------------------------------------------
\* C31: the progress stored for a participant
\* ------------------------------------------------------------------------
\* C31: no operation of the Profile Store takes progress away: whatever
\* save_user, update_session_count, add_stars, mark_topic_complete and
\* update_level calls are made, the row of a participant stays, its session
\* count and its stars do not decrease and its completed topics lose no entry.
C31_ProgressNeverShrinks ==
    [][ \A s \in DOMAIN users :
            /\ s \in DOMAIN users'
            /\ users'[s].session_count >= users[s].session_count
            /\ users'[s].total_stars >= users[s].total_stars
            /\ KeysKept(json_loads(users[s].topics_completed),
                        json_loads(users'[s].topics_completed)) ]_vars
C33_NoTopicLost ==
    sid \in DOMAIN users =>
        LET topics == json_loads(users[sid].topics_completed)
        IN  /\ inflight = <<>> => \A k \in 1..Len(input) : InList(input[k], topics)
            /\ \A i, j \in 1..Len(topics) : topics[i] = topics[j] => i = j
\* ------------------------------------------------------------------------
\* C34: level 2 needs schooling
\* ------------------------------------------------------------------------
\* C34: for every school answer that means no schooling (no, never, nahi,
\* illa, ledu, in any letter case) and for 'unknown', the default of
\* build_profile_from_onboarding when no answer was extracted,
\* assign_literacy_level returns 0 when the letters are not known and 1 when
\* they are: 2 is returned only for reported schooling.
C34_LevelTwoNeedsSchooling ==
    Called("assign_literacy_level") =>
        (Lower(input.school_attended) \in {"no", "never", "nahi", "illa", "ledu", "unknown"}
            => output[1] = IF input.knows_letters THEN 1 ELSE 0)
\* ------------------------------------------------------------------------
\* C35: the lists of a tracker hold no duplicate, successes are bounded
\* ------------------------------------------------------------------------
NoDuplicate(list) == \A i, j \in 1..Len(list) : list[i] = list[j] => i = j

\* C35: after any sequence of record_visual and record_exchange calls the
\* shown keys and the concepts taught each hold no duplicate and the success
\* counter is at most the number of recorded exchanges; a call changes the
\* counter only by adding one, and only in record_exchange.
C35_NoDuplicateBoundedSuccess ==
    /\ [](/\ NoDuplicate(tracker[1].visuals_shown)
          /\ NoDuplicate(tracker[1].concepts_taught)
          /\ tracker[1].student_successes <= Len(tracker[1].exchanges))
    /\ [][ \/ tracker'[1].student_successes = tracker[1].student_successes
           \/ /\ ev' = "record_exchange"
              /\ tracker'[1].student_successes = tracker[1].student_successes + 1 ]_vars

\* a response with two success words is recorded after a response naming a
\* letter whose picture was shown before
C35_Witness ==
    /\ ev = "record_exchange"
    /\ input.vidya_text = <<"Correct, that is perfect.">>
    /\ Len(tracker[1].exchanges) = 2
    /\ tracker[1].exchanges[1].vidya = <<"Letter E comes after the letter A.">>
    /\ tracker[1].visuals_shown = <<"letter_A">>
    /\ tracker[1].concepts_taught = << <<"Letter ", "A">>, <<"Letter ", "E">> >>
    /\ tracker[1].student_successes = 1
\* ------------------------------------------------------------------------
\* C36: no struggle is ever recorded
\* ------------------------------------------------------------------------
\* a summary that is the "nothing covered" sentence or ends with the
\* "engaged and responsive" note
EndsEngaged(summary) ==
    \/ summary = NOTHING_COVERED
    \/ /\ summary # <<>>
       /\ summary[Len(summary)] = "Student was engaged and responsive."
       /\ \A i \in 1..Len(summary) :
              summary[i] # "Review these concepts before introducing new ones."

\* C36: in every tracker state reached through record_visual,
\* record_exchange, build_summary and save the struggle list is empty, and
\* every summary built or saved is the "nothing covered" sentence or ends
\* with the "engaged and responsive" note, never with the review instruction.
C36_NoStruggleRecorded ==
    /\ tracker[1].student_struggles = <<>>
    /\ \A k \in 1..Len(output) : EndsEngaged(output[k])
    /\ \A k \in 1..Len(sessions) : EndsEngaged(sessions[k].summary)

\* a session with a response without a success word is summarised and saved
C36_Witness ==
    /\ ev = "save"
    /\ Len(sessions) = 1
    /\ sessions[1].summary # NOTHING_COVERED
    /\ output = <<sessions[1].summary>>
    /\ tracker[1].student_successes = 0
    /\ tracker[1].exchanges # <<>>
    /\ tracker[1].visuals_shown # <<>>
\* ------------------------------------------------------------------------
\* C37: save_user then get_user gives the profile back
\* ------------------------------------------------------------------------
\* C37: get_user of a session id, and the result of save_user, after a
\* save_user of a profile for that id, is a record whose name, preferred
\* language, literacy and numeracy levels, learning goal, learning path (in
\* the same order), current subject and current level are those of the
\* profile saved last, with onboarding_done = 1 and session_count = 1;
\* get_user of an id without a row returns None; and the row stored under a
\* session id is the one row of that id.
C37_SaveThenGetRoundTrip ==
    /\ output # <<>> =>
          LET id  == output[1]
              got == output[2]
          IN  /\ id \notin DOMAIN users => got = <<>>
              /\ input[id] # <<>> =>
                    LET profile == input[id][1]
                    IN  /\ got # <<>>
                        /\ got[1].name = profile.name
                        /\ got[1].preferred_language = profile.preferred_language
                        /\ got[1].literacy_level = profile.literacy_level
                        /\ got[1].numeracy_level = profile.numeracy_level
                        /\ got[1].learning_goal = profile.learning_goal
                        /\ got[1].learning_path = profile.learning_path
                        /\ got[1].current_subject = profile.current_subject
                        /\ got[1].current_level = profile.current_level
                        /\ got[1].onboarding_done = 1
                        /\ got[1].session_count = 1
    /\ \A s \in DOMAIN users : users[s].session_id = s

\* on a new database a profile with a path of several subjects is saved over
\* an earlier one of the same session id and read back, while the other id
\* was never saved
C37_Witness ==
    /\ ev = "get_user"
    /\ output[1] = RunSessionId
    /\ input[RunSessionId] # <<>>
    /\ Len(input[RunSessionId][1].learning_path) >= 2
    /\ save_user_calls = 2
    /\ DOMAIN users = {RunSessionId}
====
